---------------------------- MODULE Spec2Model ----------------------------
(***************************************************************************)
(* A model of the access-control pipeline of the FILE-STORE bot:           *)
(* src/database.py (sessions, verification tokens, settings) and           *)
(* src/bot.py (rate limiting, membership gate, verification, delivery).    *)
(*                                                                         *)
(* Time is counted in whole seconds.  `now` is the process clock           *)
(* (datetime.now(), naive local time); the store's CURRENT_TIMESTAMP is    *)
(* UTC, `tz` seconds behind the process clock.                             *)
(*                                                                         *)
(* Store operations are operators over table values, written as the SQL    *)
(* of the source reads and writes them; the actions apply them.            *)
(***************************************************************************)
EXTENDS Integers, Sequences, FiniteSets, TLC

VARIABLES
    now,            \* process clock, datetime.now(), seconds
    ticks,          \* number of clock advances taken so far
    tz,             \* process clock minus store clock (local minus UTC)
    sessions,       \* table sessions, rows in rowid order
    tokens,         \* table verification_tokens, rows in rowid order
    next_token,     \* number of tokens generated so far (secrets.token_hex)
    bypass_threshold, \* settings row 'bypass_threshold' (as float(...) reads it)
    bypass_logs,    \* table bypass_logs, rows in rowid order
    valid_returns,  \* per token, how many verify_token calls returned is_valid = True
    user_requests,  \* TelegramBot.user_requests: per user, the recorded instants
    verification_calls, \* per user, the instants of the latest permitted
                    \* verification-class rate checks (at most VerificationLimit)
    ret,            \* what the last operation returned to its caller
    proc,           \* the coroutines in flight, each at one of its awaits
    writer,         \* the connection that holds the store's write lock, or 0
    user_data,      \* context.user_data of each user
    channels,       \* table force_join_channels: the active channel ids
    runs,           \* number of updates the bot has handled so far
    max_requests_per_minute \* settings row 'max_requests_per_minute'

vars == <<now, ticks, tz, sessions, tokens, next_token, bypass_threshold,
          bypass_logs, valid_returns, user_requests, verification_calls, ret,
          proc, writer, user_data, channels, runs, max_requests_per_minute>>

-----------------------------------------------------------------------------
(* Bounds of the model *)

NUsers == 2
MaxTicks == 2
MaxRateTicks == 1
MaxSessions == 2
MaxTokens == 1
NProcs == 2
MaxChannels == 2
MaxBotTicks == 1
MaxRuns == 3
MaxStoreRuns == 2
MaxBatch == 3
MaxFaultRuns == 1
MaxSlotTicks == 2

(* Program constants *)

SESSION_DURATION == 21600
DefaultBypassThreshold == 35
SecondsPerDay == 86400
RateWindow == 60
RateLimit == 20
VerificationWindow == 30
VerificationLimit == 3

Users == 1..NUsers

\* Durations handed to create_session by a caller.
Durations == {DefaultBypassThreshold, SESSION_DURATION}

\* Clock advances between two operations.
SessionSteps == {DefaultBypassThreshold - 1, DefaultBypassThreshold}

\* Offsets between the process clock and UTC (UTC-5, UTC, UTC+5:30).
TzOffsets == {0 - 18000, 0, 19800}

-----------------------------------------------------------------------------
(* Rows and conversions *)

\* dict(row) on a row fetched without a row factory: aiosqlite hands back a
\* plain tuple, and dict() of a tuple of scalars raises (ValueError for a
\* str element that is not of length 2, TypeError for an int element).
RowToDict(row) == [exc |-> "ValueError", value |-> <<>>]

Returned(v) == [exc |-> "none", value |-> v]

\* Indices of the rows of a table that satisfy P, in rowid order.
RowsWhere(T, P(_)) == {i \in 1..Len(T) : P(T[i])}

First(S) == CHOOSE i \in S : \A j \in S : i <= j

-----------------------------------------------------------------------------
(* SESSION OPERATIONS, src/database.py *)

\* UPDATE sessions SET is_active = 0 WHERE user_id = ?
DeactivateAll(T, user_id) ==
    [i \in 1..Len(T) |->
        IF T[i].user_id = user_id THEN [T[i] EXCEPT !.is_active = FALSE] ELSE T[i]]

\* INSERT INTO sessions (session_id, user_id, start_time, expiry_time);
\* is_active takes its DEFAULT 1.
InsertSession(T, user_id, start_time, expiry_time) ==
    Append(T, [session_id |-> Len(T) + 1, user_id |-> user_id,
               start_time |-> start_time, expiry_time |-> expiry_time,
               is_active |-> TRUE])

\* A create_session that forgets to deactivate the earlier sessions.
create_session_no_deactivate(T, user_id, duration_seconds, t) ==
    InsertSession(T, user_id, t, t + duration_seconds)

\* Database.create_session, run to completion: one transaction.
create_session(T, user_id, duration_seconds, t) ==
    InsertSession(DeactivateAll(T, user_id), user_id, t, t + duration_seconds)

\* Database.get_active_session: the first row of the SELECT, through dict(row).
get_active_session(T, user_id, t) ==
    LET hit == RowsWhere(T, LAMBDA r : r.user_id = user_id /\ r.is_active
                                        /\ r.expiry_time > t)
    IN  IF hit # {} THEN RowToDict(T[First(hit)]) ELSE Returned("None")

\* Database.deactivate_session
deactivate_session(T, user_id) == DeactivateAll(T, user_id)

\* Database.cleanup_expired_sessions
cleanup_expired_sessions(T, t) ==
    [i \in 1..Len(T) |->
        IF T[i].expiry_time <= t THEN [T[i] EXCEPT !.is_active = FALSE] ELSE T[i]]

-----------------------------------------------------------------------------
(* The store driven call by call: sessions *)

tokenVars == <<tokens, next_token, bypass_threshold, bypass_logs, valid_returns>>

botVars == <<user_requests, verification_calls, proc, writer, user_data, channels,
            runs,
                   max_requests_per_minute>>

\* The bot's own Telegram account: the author of every message that
\* carries an inline keyboard.
BotAccount == NUsers + 1

\* The ids user_requests (a defaultdict) can be asked about.
Accounts == Users \cup {BotAccount}

\* An empty context.user_data, as .get() reads it: no pending link, no
\* batch flag, no verification token.
NoUserData == [pending_link |-> 0, is_batch |-> FALSE, verification_token |-> 0]

InitTables(offsets) ==
    /\ now = 0
    /\ ticks = 0
    /\ tz \in offsets
    /\ sessions = <<>>
    /\ tokens = <<>>
    /\ next_token = 0
    /\ bypass_threshold = DefaultBypassThreshold
    /\ bypass_logs = <<>>
    /\ valid_returns = <<>>
    /\ user_requests = [u \in Accounts |-> <<>>]
    /\ verification_calls = [u \in Accounts |-> <<>>]
    /\ proc = <<>>
    /\ writer = 0
    /\ user_data = [u \in Users |-> NoUserData]
    /\ runs = 0
    /\ max_requests_per_minute = RateLimit

\* The state after construction and init_db on a fresh store file.
InitStore(offsets) ==
    /\ InitTables(offsets)
    /\ channels = {}
    /\ ret = [op |-> "init"]

Advance(steps, max) ==
    /\ ticks < max
    /\ \E d \in steps : now' = now + d
    /\ ticks' = ticks + 1
    /\ ret' = [op |-> "advance"]

CallCreateSession(u, d) ==
    /\ Len(sessions) < MaxSessions
    /\ sessions' = create_session(sessions, u, d, now)
    /\ ret' = [op |-> "create_session", user_id |-> u,
               session_id |-> Len(sessions) + 1,
               had_active |-> \E i \in 1..Len(sessions) :
                                 sessions[i].user_id = u /\ sessions[i].is_active]
    /\ UNCHANGED <<now, ticks, tz, tokenVars, botVars>>

CallGetActiveSession(u) ==
    /\ ret' = [op |-> "get_active_session", user_id |-> u,
               result |-> get_active_session(sessions, u, now)]
    /\ UNCHANGED <<now, ticks, tz, sessions, tokenVars, botVars>>

CallDeactivateSession(u) ==
    /\ sessions' = deactivate_session(sessions, u)
    /\ ret' = [op |-> "deactivate_session", user_id |-> u]
    /\ UNCHANGED <<now, ticks, tz, tokenVars, botVars>>

CallCleanupExpiredSessions ==
    /\ sessions' = cleanup_expired_sessions(sessions, now)
    /\ ret' = [op |-> "cleanup_expired_sessions"]
    /\ UNCHANGED <<now, ticks, tz, tokenVars, botVars>>

AdvanceSession ==
    Advance(SessionSteps, MaxTicks) /\ UNCHANGED <<tz, sessions, tokenVars, botVars>>

NextSession ==
    \/ \E u \in Users, d \in Durations : CallCreateSession(u, d)
    \/ \E u \in Users : CallGetActiveSession(u)
    \/ \E u \in Users : CallDeactivateSession(u)
    \/ CallCleanupExpiredSessions
    \/ AdvanceSession

\* Sessions are stamped and read with the process clock alone.
InitSession == InitStore({0})

SpecSession == InitSession /\ [][NextSession]_vars

-----------------------------------------------------------------------------
(* C1 *)

ActiveRows(T, u) == RowsWhere(T, LAMBDA r : r.user_id = u /\ r.is_active)

\* C1: session exclusivity.  After any sequence of create_session,
\* deactivate_session and cleanup_expired_sessions calls every user has at
\* most one row with is_active = 1, and right after create_session(u, d) the
\* only active row of u is the row that call inserted.
C1_SessionExclusivity ==
    /\ \A u \in Users : Cardinality(ActiveRows(sessions, u)) <= 1
    /\ ret.op = "create_session" =>
          ActiveRows(sessions, ret.user_id) = {ret.session_id}

\* A second create_session for a user who already held an active session.
C1_Witness ==
    /\ ret.op = "create_session"
    /\ ret.had_active
    /\ \E i \in 1..Len(sessions) :
          /\ i # ret.session_id
          /\ sessions[i].user_id = ret.user_id
          /\ sessions[i].expiry_time > now
          /\ ~sessions[i].is_active

-----------------------------------------------------------------------------
(* VERIFICATION TOKENS, src/database.py *)

\* CURRENT_TIMESTAMP of the store at process time t: UTC.
CURRENT_TIMESTAMP(t) == t - tz

\* Thresholds an operator may write into the settings row.
Thresholds == {DefaultBypassThreshold, 2 * DefaultBypassThreshold}

\* Clock advances between two token operations.
TokenSteps == {DefaultBypassThreshold, SecondsPerDay}

\* Database.create_verification_token: INSERT (token, user_id, short_url);
\* created_at, is_used and is_bypassed take their DEFAULTs.
create_verification_token(T, token, user_id, t) ==
    Append(T, [token |-> token, user_id |-> user_id,
               created_at |-> CURRENT_TIMESTAMP(t),
               is_used |-> FALSE, is_bypassed |-> FALSE,
               callback_time |-> "NULL"])

\* UPDATE verification_tokens SET is_used = 1, is_bypassed = ?,
\* callback_time = ? WHERE token = ?
MarkUsed(T, token, is_bypassed, callback_time) ==
    [i \in 1..Len(T) |->
        IF T[i].token = token
        THEN [T[i] EXCEPT !.is_used = TRUE, !.is_bypassed = is_bypassed,
                          !.callback_time = callback_time]
        ELSE T[i]]

\* A verify_token that compares with <= instead of <.
IsBypassedInclusive(time_diff, threshold) == time_diff <= threshold

\* is_bypassed = time_diff < bypass_threshold
IsBypassed(time_diff, threshold) == time_diff < threshold

\* A verify_token that leaves a bypassed token unused.
verify_token_keeps_bypassed(T, logs, threshold, token, user_id, callback_time) ==
    LET hit == RowsWhere(T, LAMBDA r : r.token = token /\ r.user_id = user_id
                                        /\ ~r.is_used)
    IN  IF hit = {}
        THEN [tokens |-> T, bypass_logs |-> logs, result |-> <<FALSE, FALSE, 0>>]
        ELSE LET time_diff == callback_time - T[First(hit)].created_at
                 is_bypassed == IsBypassed(time_diff, threshold)
             IN  [tokens |-> IF is_bypassed THEN T
                             ELSE MarkUsed(T, token, is_bypassed, callback_time),
                  bypass_logs |-> logs,
                  result |-> <<TRUE, is_bypassed, time_diff>>]

\* A verify_token whose SELECT does not ask for the owner.
verify_token_any_user(T, logs, threshold, token, user_id, callback_time) ==
    LET hit == RowsWhere(T, LAMBDA r : r.token = token /\ ~r.is_used)
    IN  IF hit = {}
        THEN [tokens |-> T, bypass_logs |-> logs, result |-> <<FALSE, FALSE, 0>>]
        ELSE LET time_diff == callback_time - T[First(hit)].created_at
                 is_bypassed == IsBypassed(time_diff, threshold)
             IN  [tokens |-> MarkUsed(T, token, is_bypassed, callback_time),
                  bypass_logs |->
                      IF is_bypassed
                      THEN Append(logs, [user_id |-> user_id, token |-> token,
                                         time_diff |-> time_diff])
                      ELSE logs,
                  result |-> <<TRUE, is_bypassed, time_diff>>]

\* Database.verify_token, run to completion.  The result is the 3-tuple
\* (is_valid, is_bypassed, time_diff) of the source.
verify_token(T, logs, threshold, token, user_id, callback_time) ==
    LET hit == RowsWhere(T, LAMBDA r : r.token = token /\ r.user_id = user_id
                                        /\ ~r.is_used)
    IN  IF hit = {}
        THEN [tokens |-> T, bypass_logs |-> logs, result |-> <<FALSE, FALSE, 0>>]
        ELSE LET time_diff == callback_time - T[First(hit)].created_at
                 is_bypassed == IsBypassed(time_diff, threshold)
             IN  [tokens |-> MarkUsed(T, token, is_bypassed, callback_time),
                  bypass_logs |->
                      IF is_bypassed
                      THEN Append(logs, [user_id |-> user_id, token |-> token,
                                         time_diff |-> time_diff])
                      ELSE logs,
                  result |-> <<TRUE, is_bypassed, time_diff>>]

\* Database.get_user_by_token
get_user_by_token(T, token) ==
    LET hit == RowsWhere(T, LAMBDA r : r.token = token /\ ~r.is_used)
    IN  IF hit # {} THEN T[First(hit)].user_id ELSE 0

\* The calendar date of an instant: the first ten characters of its text.
DateOf(t) == t \div SecondsPerDay

\* The TEXT comparison created_at < cutoff of cleanup_old_tokens: created_at
\* is 'YYYY-MM-DD HH:MM:SS' (CURRENT_TIMESTAMP), cutoff is isoformat(),
\* 'YYYY-MM-DDTHH:MM:SS.ffffff'; the strings differ at the date or, the dates
\* being equal, at the separator, where ' ' sorts before 'T'.
TextLess(created_at, cutoff) == DateOf(created_at) <= DateOf(cutoff)

\* Database.cleanup_old_tokens(days): DELETE ... WHERE created_at < cutoff
cleanup_old_tokens(T, days, t) ==
    SelectSeq(T, LAMBDA r : ~TextLess(r.created_at, t - days * SecondsPerDay))

-----------------------------------------------------------------------------
(* The store driven call by call: verification tokens *)

CallCreateVerificationToken(u) ==
    /\ next_token < MaxTokens
    /\ next_token' = next_token + 1
    /\ tokens' = create_verification_token(tokens, next_token + 1, u, now)
    /\ valid_returns' = Append(valid_returns, 0)
    /\ ret' = [op |-> "create_verification_token", user_id |-> u,
               token |-> next_token + 1]
    /\ UNCHANGED <<now, ticks, tz, sessions, bypass_threshold, bypass_logs,
                   botVars>>

CallVerifyToken(t, u) ==
    LET r == verify_token(tokens, bypass_logs, bypass_threshold, t, u, now)
        used_before == \E i \in 1..Len(tokens) :
                          tokens[i].token = t /\ tokens[i].is_used
    IN  /\ tokens' = r.tokens
        /\ bypass_logs' = r.bypass_logs
        /\ valid_returns' = IF r.result[1]
                            THEN [valid_returns EXCEPT ![t] = @ + 1]
                            ELSE valid_returns
        /\ ret' = [op |-> "verify_token", token |-> t, user_id |-> u,
                   result |-> r.result, used_before |-> used_before,
                   before |-> tokens, logs_before |-> bypass_logs]
        /\ UNCHANGED <<now, ticks, tz, sessions, next_token, bypass_threshold,
                       botVars>>

CallCleanupOldTokens ==
    /\ tokens' = cleanup_old_tokens(tokens, 1, now)
    /\ ret' = [op |-> "cleanup_old_tokens"]
    /\ UNCHANGED <<now, ticks, tz, sessions, next_token, bypass_threshold,
                   bypass_logs, valid_returns, botVars>>

\* Database.set_setting('bypass_threshold', v)
CallSetSetting(v) ==
    /\ bypass_threshold' = v
    /\ ret' = [op |-> "set_setting"]
    /\ UNCHANGED <<now, ticks, tz, sessions, tokens, next_token, bypass_logs,
                   valid_returns, botVars>>

AdvanceToken ==
    Advance(TokenSteps, MaxTicks) /\ UNCHANGED <<tz, sessions, tokenVars, botVars>>

NextToken ==
    \/ \E u \in Users : CallCreateVerificationToken(u)
    \/ \E t \in 1..(next_token + 1), u \in Users : CallVerifyToken(t, u)
    \/ CallCleanupOldTokens
    \/ \E v \in Thresholds : CallSetSetting(v)
    \/ AdvanceToken

InitToken == InitStore(TzOffsets)

SpecToken == InitToken /\ [][NextToken]_vars

-----------------------------------------------------------------------------
(* C2 *)

\* C2: token single-use.  Over any sequence of verify_token calls, for every
\* token at most one call returns is_valid = True; a call on a token that
\* was already used, by any user and at any time, returns is_valid = False,
\* also when the first redemption was classified bypassed.
C2_TokenSingleUse ==
    /\ \A t \in 1..next_token : valid_returns[t] <= 1
    /\ (ret.op = "verify_token" /\ ret.used_before) => ~ret.result[1]

\* The owner presents a token again after its bypassed redemption.
C2_Witness ==
    /\ ret.op = "verify_token"
    /\ ret.used_before
    /\ valid_returns[ret.token] = 1
    /\ \E i \in 1..Len(tokens) :
          /\ tokens[i].token = ret.token
          /\ tokens[i].user_id = ret.user_id
          /\ tokens[i].is_bypassed

-----------------------------------------------------------------------------
(* C6 *)

\* C6: bypass threshold.  A verify_token call on an unused token owned by
\* the redeeming user returns valid, with bypassed = True when the elapsed
\* time (the redemption instant minus the stored created_at) is strictly
\* less than the configured threshold and bypassed = False when it is
\* greater or equal.
C6_BypassThreshold ==
    ret.op = "verify_token" =>
        \A i \in 1..Len(tokens) :
            (tokens[i].token = ret.token /\ tokens[i].user_id = ret.user_id
                /\ ~ret.used_before)
            => /\ ret.result[1]
               /\ ret.result[2] = (now - tokens[i].created_at < bypass_threshold)
               /\ tokens[i].is_bypassed = ret.result[2]

\* A redemption at exactly the threshold, with a threshold that is not the
\* default: valid and not bypassed.
C6_Witness ==
    /\ ret.op = "verify_token"
    /\ ret.result[1]
    /\ ~ret.result[2]
    /\ bypass_threshold # DefaultBypassThreshold
    /\ ret.result[3] = bypass_threshold

\* A redemption short of a threshold that is not the default, at an elapsed
\* time the default would have let pass: valid and bypassed.
C6_WitnessBypassed ==
    /\ ret.op = "verify_token"
    /\ ret.result[1]
    /\ ret.result[2]
    /\ ret.result[3] >= DefaultBypassThreshold
    /\ ret.result[3] < bypass_threshold

-----------------------------------------------------------------------------
(* RATE LIMITING, src/bot.py *)

\* timedelta.seconds of a difference of d seconds: the seconds field of the
\* normalised (days, seconds, microseconds), not total_seconds().
TimedeltaSeconds(d) == d % SecondsPerDay

\* The action classes the handlers pass to check_rate_limit.
ActionClasses == {"message", "link_access", "verification"}

\* Clock advances between two rate checks.
RateSteps == {RateWindow - 1, RateWindow, SecondsPerDay}

\* The users whose windows the rate specification drives.
RateUsers == {1}

\* A check_rate_limit that records the denied attempt too.
check_rate_limit_records_denial(reqs, t, action) ==
    LET cleaned == SelectSeq(reqs, LAMBDA r : TimedeltaSeconds(t - r) < RateWindow)
        recent  == SelectSeq(cleaned,
                             LAMBDA r : TimedeltaSeconds(t - r) < VerificationWindow)
    IN  IF Len(cleaned) >= RateLimit
        THEN [requests |-> Append(cleaned, t), allowed |-> FALSE,
              message |-> "rate_limit"]
        ELSE IF action = "verification" /\ Len(recent) >= VerificationLimit
        THEN [requests |-> Append(cleaned, t), allowed |-> FALSE,
              message |-> "verification_limit"]
        ELSE [requests |-> Append(cleaned, t), allowed |-> TRUE, message |-> ""]

\* TelegramBot.check_rate_limit on the list of one user: the list it leaves
\* behind and the (allowed, message) it returns.
check_rate_limit(reqs, t, action) ==
    LET cleaned == SelectSeq(reqs, LAMBDA r : TimedeltaSeconds(t - r) < RateWindow)
        recent  == SelectSeq(cleaned,
                             LAMBDA r : TimedeltaSeconds(t - r) < VerificationWindow)
    IN  IF Len(cleaned) >= RateLimit
        THEN [requests |-> cleaned, allowed |-> FALSE, message |-> "rate_limit"]
        ELSE IF action = "verification" /\ Len(recent) >= VerificationLimit
        THEN [requests |-> cleaned, allowed |-> FALSE,
              message |-> "verification_limit"]
        ELSE [requests |-> Append(cleaned, t), allowed |-> TRUE, message |-> ""]

\* How many instants of a list are less than w seconds older than t.
Younger(reqs, t, w) == Len(SelectSeq(reqs, LAMBDA r : t - r < w))

\* The latest n elements of a list.
Latest(q, n) == IF Len(q) <= n THEN q ELSE SubSeq(q, Len(q) - n + 1, Len(q))

\* The record of permitted verification-class checks after one more check.
NoteVerification(calls, action, allowed, t) ==
    IF action = "verification" /\ allowed
    THEN Latest(Append(calls, t), VerificationLimit)
    ELSE calls

CallCheckRateLimit(u, action) ==
    LET r == check_rate_limit(user_requests[u], now, action)
    IN  /\ user_requests' = [user_requests EXCEPT ![u] = r.requests]
        /\ verification_calls' =
              [verification_calls EXCEPT
                  ![u] = NoteVerification(@, action, r.allowed, now)]
        /\ ret' = [op |-> "check_rate_limit", user_id |-> u, action |-> action,
                   allowed |-> r.allowed, message |-> r.message,
                   before |-> user_requests[u]]
        /\ UNCHANGED <<now, ticks, tz, sessions, tokenVars, proc, writer,
                       user_data, channels, runs,
                   max_requests_per_minute>>

AdvanceRate ==
    Advance(RateSteps, MaxRateTicks) /\ UNCHANGED <<tz, sessions, tokenVars, botVars>>

NextRate ==
    \/ \E u \in RateUsers, a \in ActionClasses : CallCheckRateLimit(u, a)
    \/ AdvanceRate

InitRate == InitStore({0})

SpecRate == InitRate /\ [][NextRate]_vars

-----------------------------------------------------------------------------
(* C9 *)

Count(q, x) == Len(SelectSeq(q, LAMBDA r : r = x))

\* C9: rate window.  A call made while RateLimit recorded instants of the
\* user are less than RateWindow seconds old is denied, whatever its class;
\* a denied call appends nothing to the window (it can only drop instants),
\* and a permitted call appends exactly its own instant.
C9_RateWindow ==
    ret.op = "check_rate_limit" =>
        LET before == ret.before
            after  == user_requests[ret.user_id]
        IN  /\ Younger(before, now, RateWindow) >= RateLimit => ~ret.allowed
            /\ ~ret.allowed =>
                  /\ Len(after) <= Len(before)
                  /\ \A x \in {after[i] : i \in 1..Len(after)} :
                        Count(after, x) <= Count(before, x)
            /\ ret.allowed =>
                  /\ Len(after) >= 1
                  /\ after[Len(after)] = now
                  /\ Count(after, now) = Count(before, now) + 1

\* The window is full and its oldest instant is one second short of
\* RateWindow old: the call is denied.
C9_Witness ==
    /\ ret.op = "check_rate_limit"
    /\ ~ret.allowed
    /\ ret.message = "rate_limit"
    /\ Len(ret.before) = RateLimit
    /\ ret.before[1] = now - (RateWindow - 1)
    /\ user_requests[ret.user_id] = ret.before

\* The window was full, its oldest instant has turned RateWindow old, and
\* the next call is permitted.
C9_WitnessSlides ==
    /\ ret.op = "check_rate_limit"
    /\ ret.allowed
    /\ Len(ret.before) = RateLimit
    /\ ret.before[1] = now - RateWindow

-----------------------------------------------------------------------------
(* C10 *)

\* C10: the verification sub-limit counts verification-class calls only.  A
\* verification-class call is denied by the sub-limit only when the same
\* user made at least VerificationLimit permitted verification-class calls
\* in the last VerificationWindow seconds.
C10_PerActionClass ==
    (ret.op = "check_rate_limit" /\ ret.action = "verification"
        /\ ret.message = "verification_limit")
    => Younger(verification_calls[ret.user_id], now, VerificationWindow)
          >= VerificationLimit

-----------------------------------------------------------------------------
(* COROUTINES OF THE STORE, INTERLEAVED AT THEIR AWAITS                     *)
(*                                                                         *)
(* Every Database method opens its own connection.  A connection's first   *)
(* UPDATE or INSERT begins a transaction and takes the store's write lock  *)
(* (sqlite3 begins one implicitly; SQLite admits one writer); its writes   *)
(* are private until commit.  A SELECT holds nothing once its one row has  *)
(* been fetched.  A statement that finds the lock taken waits, and raises  *)
(* OperationalError when the busy timeout runs out.                        *)

Procs == 1..NProcs

\* A create_session that commits after each statement.
create_session_stmts_commit_each ==
    <<"deactivate_all", "commit", "insert_session", "commit", "return_session">>

\* The awaits of Database.create_session, in order.
create_session_stmts ==
    <<"deactivate_all", "insert_session", "commit", "return_session">>

\* The awaits of Database.verify_token, in order.
verify_token_stmts ==
    <<"select_token", "get_setting", "mark_used", "log_bypass", "commit",
      "return_verify">>

\* verification_callback from its call of verify_token to the return of
\* create_session: the result is unpacked into (is_valid, is_bypassed).
verification_callback_stmts ==
    verify_token_stmts \o <<"unpack">> \o create_session_stmts

Program(op) ==
    IF op = "create_session" THEN create_session_stmts
    ELSE verification_callback_stmts

IdleProc ==
    [op |-> "idle", status |-> "idle", pc |-> 0, user_id |-> 0, token |-> 0,
     call_time |-> 0, created_at |-> 0, time_diff |-> 0, is_bypassed |-> FALSE,
     result |-> <<>>, session_id |-> 0, waited |-> FALSE, exc |-> "none",
     priv |-> [sessions |-> <<>>, tokens |-> <<>>, bypass_logs |-> <<>>]]

At(p, stmt) ==
    /\ proc[p].status = "running"
    /\ Program(proc[p].op)[proc[p].pc] = stmt

\* What the connection of p reads: its own uncommitted writes, if any.
View(p) ==
    IF writer = p THEN proc[p].priv
    ELSE [sessions |-> sessions, tokens |-> tokens, bypass_logs |-> bypass_logs]

CanWrite(p) == writer \in {0, p}

WriteStmts == {"mark_used", "deactivate_all", "insert_session"}

\* (is_valid, is_bypassed) = <result>: a tuple of any other length raises.
Unpack2(result) == IF Len(result) = 2 THEN "ok" ELSE "ValueError"

raceFrame == <<now, ticks, tz, next_token, bypass_threshold, valid_returns,
               user_requests, verification_calls, ret, user_data, channels,
               runs,
                   max_requests_per_minute>>

Start(p, op, u, t) ==
    /\ proc[p].status = "idle"
    /\ proc' = [proc EXCEPT ![p] =
                  [IdleProc EXCEPT !.op = op, !.status = "running", !.pc = 1,
                                   !.user_id = u, !.token = t, !.call_time = now]]
    /\ UNCHANGED <<sessions, tokens, bypass_logs, writer, raceFrame>>

SelectToken(p) ==
    /\ At(p, "select_token")
    /\ LET T == View(p).tokens
           hit == RowsWhere(T, LAMBDA r : r.token = proc[p].token
                                          /\ r.user_id = proc[p].user_id
                                          /\ ~r.is_used)
       IN  proc' = [proc EXCEPT ![p] =
                IF hit = {}
                THEN [@ EXCEPT !.result = <<FALSE, FALSE, 0>>,
                               !.pc = Len(verify_token_stmts) + 1]
                ELSE [@ EXCEPT !.created_at = T[First(hit)].created_at,
                               !.pc = @ + 1]]
    /\ UNCHANGED <<sessions, tokens, bypass_logs, writer, raceFrame>>

GetSetting(p) ==
    /\ At(p, "get_setting")
    /\ LET time_diff == proc[p].call_time - proc[p].created_at
       IN  proc' = [proc EXCEPT ![p] =
                [@ EXCEPT !.time_diff = time_diff,
                          !.is_bypassed = IsBypassed(time_diff, bypass_threshold),
                          !.pc = @ + 1]]
    /\ UNCHANGED <<sessions, tokens, bypass_logs, writer, raceFrame>>

MarkUsedStmt(p) ==
    /\ At(p, "mark_used")
    /\ CanWrite(p)
    /\ writer' = p
    /\ proc' = [proc EXCEPT ![p] =
            [@ EXCEPT !.priv = [View(p) EXCEPT !.tokens =
                                   MarkUsed(@, proc[p].token, proc[p].is_bypassed,
                                            proc[p].call_time)],
                      !.pc = @ + 1]]
    /\ UNCHANGED <<sessions, tokens, bypass_logs, raceFrame>>

LogBypass(p) ==
    /\ At(p, "log_bypass")
    /\ proc' = [proc EXCEPT ![p] =
            [@ EXCEPT !.priv = IF proc[p].is_bypassed
                               THEN [View(p) EXCEPT !.bypass_logs =
                                       Append(@, [user_id |-> proc[p].user_id,
                                                  token |-> proc[p].token,
                                                  time_diff |-> proc[p].time_diff])]
                               ELSE @,
                      !.pc = @ + 1]]
    /\ UNCHANGED <<sessions, tokens, bypass_logs, writer, raceFrame>>

Commit(p) ==
    /\ At(p, "commit")
    /\ IF writer = p
       THEN /\ sessions' = proc[p].priv.sessions
            /\ tokens' = proc[p].priv.tokens
            /\ bypass_logs' = proc[p].priv.bypass_logs
            /\ writer' = 0
       ELSE UNCHANGED <<sessions, tokens, bypass_logs, writer>>
    /\ proc' = [proc EXCEPT ![p] = [@ EXCEPT !.pc = @ + 1]]
    /\ UNCHANGED raceFrame

ReturnVerify(p) ==
    /\ At(p, "return_verify")
    /\ proc' = [proc EXCEPT ![p] =
            [@ EXCEPT !.result = <<TRUE, proc[p].is_bypassed, proc[p].time_diff>>,
                      !.pc = @ + 1]]
    /\ UNCHANGED <<sessions, tokens, bypass_logs, writer, raceFrame>>

\* bot.py:295-316: unpack, then the invalid, bypassed and granted branches.
Unpack(p) ==
    /\ At(p, "unpack")
    /\ proc' = [proc EXCEPT ![p] =
            IF Unpack2(proc[p].result) # "ok"
            THEN [@ EXCEPT !.status = "raised", !.exc = Unpack2(proc[p].result)]
            ELSE IF ~proc[p].result[1] \/ proc[p].result[2]
            THEN [@ EXCEPT !.status = "returned"]
            ELSE [@ EXCEPT !.pc = @ + 1]]
    /\ UNCHANGED <<sessions, tokens, bypass_logs, writer, raceFrame>>

DeactivateStmt(p) ==
    /\ At(p, "deactivate_all")
    /\ CanWrite(p)
    /\ writer' = p
    /\ proc' = [proc EXCEPT ![p] =
            [@ EXCEPT !.priv = [View(p) EXCEPT !.sessions =
                                   DeactivateAll(@, proc[p].user_id)],
                      !.pc = @ + 1]]
    /\ UNCHANGED <<sessions, tokens, bypass_logs, raceFrame>>

InsertStmt(p) ==
    /\ At(p, "insert_session")
    /\ CanWrite(p)
    /\ writer' = p
    /\ proc' = [proc EXCEPT ![p] =
            [@ EXCEPT !.priv = [View(p) EXCEPT !.sessions =
                                   InsertSession(@, proc[p].user_id,
                                       proc[p].call_time,
                                       proc[p].call_time + SESSION_DURATION)],
                      !.session_id = Len(View(p).sessions) + 1,
                      !.pc = @ + 1]]
    /\ UNCHANGED <<sessions, tokens, bypass_logs, raceFrame>>

ReturnSession(p) ==
    /\ At(p, "return_session")
    /\ proc' = [proc EXCEPT ![p] = [@ EXCEPT !.status = "returned"]]
    /\ UNCHANGED <<sessions, tokens, bypass_logs, writer, raceFrame>>

\* The statement of p finds the write lock taken and waits for it.
WaitForLock(p) ==
    /\ \E st \in WriteStmts : At(p, st)
    /\ ~CanWrite(p)
    /\ proc' = [proc EXCEPT ![p] = [@ EXCEPT !.waited = TRUE]]
    /\ UNCHANGED <<sessions, tokens, bypass_logs, writer, raceFrame>>

\* The busy timeout runs out: sqlite3.OperationalError, database is locked.
LockTimeout(p) ==
    /\ \E st \in WriteStmts : At(p, st)
    /\ ~CanWrite(p)
    /\ proc' = [proc EXCEPT ![p] =
                  [@ EXCEPT !.status = "raised", !.exc = "OperationalError"]]
    /\ UNCHANGED <<sessions, tokens, bypass_logs, writer, raceFrame>>

NextRace ==
    \/ \E p \in Procs, u \in Users : Start(p, "create_session", u, 0)
    \/ \E p \in Procs, u \in Users, t \in 1..next_token :
          Start(p, "verification_callback", u, t)
    \/ \E p \in Procs : SelectToken(p)
    \/ \E p \in Procs : GetSetting(p)
    \/ \E p \in Procs : MarkUsedStmt(p)
    \/ \E p \in Procs : LogBypass(p)
    \/ \E p \in Procs : Commit(p)
    \/ \E p \in Procs : ReturnVerify(p)
    \/ \E p \in Procs : Unpack(p)
    \/ \E p \in Procs : DeactivateStmt(p)
    \/ \E p \in Procs : InsertStmt(p)
    \/ \E p \in Procs : ReturnSession(p)
    \/ \E p \in Procs : WaitForLock(p)
    \/ \E p \in Procs : LockTimeout(p)

\* One token was issued to user 1 at instant 0; the coroutines run at that
\* instant or DefaultBypassThreshold seconds later.
InitRace ==
    /\ now \in {0, DefaultBypassThreshold}
    /\ ticks = 0
    /\ tz = 0
    /\ sessions = <<>>
    /\ tokens = create_verification_token(<<>>, 1, 1, 0)
    /\ next_token = 1
    /\ bypass_threshold = DefaultBypassThreshold
    /\ bypass_logs = <<>>
    /\ valid_returns = <<0>>
    /\ user_requests = [u \in Accounts |-> <<>>]
    /\ verification_calls = [u \in Accounts |-> <<>>]
    /\ ret = [op |-> "init"]
    /\ proc = [p \in Procs |-> IdleProc]
    /\ writer = 0
    /\ user_data = [u \in Users |-> NoUserData]
    /\ channels = {}
    /\ runs = 0
    /\ max_requests_per_minute = RateLimit

SpecRace == InitRace /\ [][NextRace]_vars

-----------------------------------------------------------------------------
(* C3 *)

ValidRedemptions(t) ==
    {p \in Procs : /\ proc[p].op = "verification_callback"
                   /\ proc[p].token = t
                   /\ Len(proc[p].result) > 0
                   /\ proc[p].result[1]}

SessionsGranted(t) ==
    {p \in Procs : /\ proc[p].op = "verification_callback"
                   /\ proc[p].token = t
                   /\ proc[p].session_id # 0}

\* C3: at most one redemption under interleaving.  Of the redemptions of one
\* token that are interleaved at the awaits of verify_token, at most one
\* gets is_valid = True and at most one creates a session.
C3_AtMostOneRedemption ==
    \A t \in 1..next_token :
        /\ Cardinality(ValidRedemptions(t)) <= 1
        /\ Cardinality(SessionsGranted(t)) <= 1

-----------------------------------------------------------------------------
(* C4 *)

\* C4: at most one active session under interleaving.  However the awaits
\* of concurrent create_session calls interleave, no committed state of the
\* sessions table holds two rows with is_active = 1 for one user; so none
\* does after both calls have committed.
C4_OneActiveSessionInterleaved ==
    \A u \in Users : Cardinality(ActiveRows(sessions, u)) <= 1

\* Two create_session calls for one user have both returned, and one of
\* them had to wait for the other's transaction.
C4_Witness ==
    \E p, q \in Procs :
        /\ p # q
        /\ proc[p].op = "create_session" /\ proc[p].status = "returned"
        /\ proc[q].op = "create_session" /\ proc[q].status = "returned"
        /\ proc[p].user_id = proc[q].user_id
        /\ proc[q].waited
        /\ Cardinality({i \in 1..Len(sessions) :
                            sessions[i].user_id = proc[p].user_id}) = 2

-----------------------------------------------------------------------------
(* THE MEMBERSHIP GATE *)

\* ChatMember.status as Telegram reports it.
MemberStatuses ==
    {"member", "administrator", "creator", "restricted", "left", "kicked"}

\* What one channel's two Telegram calls answer: get_chat resolves or
\* raises; get_chat_member returns a status or raises ("error").
Telegram ==
    [get_chat : {"ok", "error"}, get_chat_member : MemberStatuses \cup {"error"}]

\* A row of force_join_channels as check_membership reads it: channel_id
\* (0 for a falsy one, else positive or negative) and whether the key
\* 'username' is present.
ChannelInfos == [channel_id : {0 - 1, 0, 1}, has_username : BOOLEAN]

Raised(exc) == [exc |-> exc, value |-> <<>>]

\* Lines 37-43 of check_membership: the chat id handed to get_chat_member.
ResolveChatId(channel_info, tg) ==
    IF channel_info.channel_id = 0 /\ channel_info.has_username
    THEN IF tg.get_chat = "error" THEN Raised("TelegramError")
         ELSE Returned("chat.id")
    ELSE IF channel_info.channel_id = 0 THEN Returned("None")
    ELSE IF channel_info.channel_id > 0 THEN Returned("-100<channel_id>")
    ELSE Returned("<channel_id>")

\* bot.get_chat_member(chat_id, user_id)
get_chat_member(chat_id, tg) ==
    IF chat_id = "None" \/ tg.get_chat_member = "error"
    THEN Raised("TelegramError")
    ELSE Returned(tg.get_chat_member)

\* A check_membership that takes a failed query for a membership.
check_membership_fail_open(channel_info, tg) ==
    LET chat == ResolveChatId(channel_info, tg)
    IN  IF chat.exc # "none" THEN Returned(FALSE)
        ELSE LET member == get_chat_member(chat.value, tg)
             IN  IF member.exc # "none" THEN Returned(TRUE)
                 ELSE Returned(member.value \in {"member", "administrator", "creator"})

\* MembershipChecker.check_membership
check_membership(channel_info, tg) ==
    LET chat == ResolveChatId(channel_info, tg)
    IN  IF chat.exc # "none" THEN Returned(FALSE)
        ELSE LET member == get_chat_member(chat.value, tg)
             IN  IF member.exc # "none" THEN Returned(FALSE)
                 ELSE Returned(member.value \in {"member", "administrator", "creator"})

\* MembershipChecker.check_all_memberships: one result per channel, in the
\* order of the channels; an exception of check_membership would leave it.
check_all_memberships(chs, tgs) ==
    LET r(i) == check_membership(chs[i], tgs[i])
    IN  IF \E i \in 1..Len(chs) : r(i).exc # "none"
        THEN Raised("TelegramError")
        ELSE Returned([i \in 1..Len(chs) |->
                          [channel |-> chs[i], is_member |-> r(i).value]])

\* An aggregate that is content with one joined channel.
AnyJoined(results) ==
    Len(results) = 0 \/ \E i \in 1..Len(results) : results[i].is_member

\* all(channel['is_member'] for channel in membership_results)
AllJoined(results) == \A i \in 1..Len(results) : results[i].is_member

\* check_force_join, lines 105-118: where the gate sends the request.
GateDecision(chs, memberships) ==
    IF Len(chs) = 0 THEN "start_verification"
    ELSE IF memberships.exc # "none" THEN "raise"
    ELSE IF AllJoined(memberships.value) THEN "start_verification"
    ELSE "join_channels"

\* The rows and the answers the gate is applied to: get_chat is only
\* called for a row without channel_id that has a username.
GateInputs ==
    {x \in ChannelInfos \X Telegram :
        x[2].get_chat = "error" => x[1].channel_id = 0 /\ x[1].has_username}

CallCheckAllMemberships(chs, tgs) ==
    /\ ret.op = "get_force_join_channels"
    /\ ret' = [op |-> "check_all_memberships", channels |-> chs,
               telegram |-> tgs,
               memberships |-> check_all_memberships(chs, tgs),
               gate |-> GateDecision(chs, check_all_memberships(chs, tgs))]
    /\ UNCHANGED <<now, ticks, tz, sessions, tokenVars, botVars>>

NextMembership ==
    CallCheckAllMemberships([i \in 1..Len(ret.rows) |-> ret.rows[i][1]],
                            [i \in 1..Len(ret.rows) |-> ret.rows[i][2]])

\* The gate is applied to any list of at most MaxChannels rows.
InitMembership ==
    /\ InitTables({0})
    /\ channels = {}
    /\ \E k \in 0..MaxChannels :
          ret \in [op : {"get_force_join_channels"}, rows : [1..k -> GateInputs]]

SpecMembership == InitMembership /\ [][NextMembership]_vars

-----------------------------------------------------------------------------
(* C13 *)

Failed(channel_info, tg) ==
    \/ channel_info.channel_id = 0 /\ channel_info.has_username
          /\ tg.get_chat = "error"
    \/ channel_info.channel_id = 0 /\ ~channel_info.has_username
    \/ tg.get_chat_member = "error"

\* C13: fail-closed membership.  Whenever resolving a channel or querying
\* the membership raises, that channel is reported not joined, and no
\* exception leaves check_membership (so none leaves check_all_memberships).
C13_FailClosed ==
    ret.op = "check_all_memberships" =>
        /\ ret.memberships.exc = "none"
        /\ \A i \in 1..Len(ret.channels) :
              Failed(ret.channels[i], ret.telegram[i])
                  => ~ret.memberships.value[i].is_member

\* One channel whose resolution raised and one whose membership query
\* raised, both reported not joined.
C13_Witness ==
    /\ ret.op = "check_all_memberships"
    /\ ret.memberships.exc = "none"
    /\ \E i, j \in 1..Len(ret.channels) :
          /\ ret.channels[i].channel_id = 0 /\ ret.channels[i].has_username
          /\ ret.telegram[i].get_chat = "error"
          /\ ret.telegram[i].get_chat_member = "member"
          /\ ~ret.memberships.value[i].is_member
          /\ ret.channels[j].channel_id # 0
          /\ ret.telegram[j].get_chat_member = "error"
          /\ ~ret.memberships.value[j].is_member

-----------------------------------------------------------------------------
(* C14 *)

JoinedStatuses == {"member", "administrator", "creator"}

\* C14: membership gate result.  A channel is reported joined iff its
\* membership query answered one of member, administrator, creator; the
\* gate passes iff every channel is reported joined; with no channel it
\* passes and the request goes on to verification issuance.
C14_GateResult ==
    ret.op = "check_all_memberships" =>
        /\ \A i \in 1..Len(ret.channels) :
              ret.memberships.value[i].is_member
                  <=> /\ ~Failed(ret.channels[i], ret.telegram[i])
                      /\ ret.telegram[i].get_chat_member \in JoinedStatuses
        /\ ret.gate = "start_verification"
              <=> \A i \in 1..Len(ret.channels) :
                     ret.memberships.value[i].is_member
        /\ Len(ret.channels) = 0 => ret.gate = "start_verification"

\* Two channels, one joined as administrator and one left: the gate holds
\* the request back.
C14_Witness ==
    /\ ret.op = "check_all_memberships"
    /\ Len(ret.channels) = 2
    /\ ret.telegram[1].get_chat_member = "administrator"
    /\ ret.memberships.value[1].is_member
    /\ ret.telegram[2].get_chat_member = "left"
    /\ ~ret.memberships.value[2].is_member
    /\ ret.gate = "join_channels"

\* No channel is configured: the gate passes.
C14_WitnessNoChannel ==
    /\ ret.op = "check_all_memberships"
    /\ Len(ret.channels) = 0
    /\ ret.gate = "start_verification"

-----------------------------------------------------------------------------
(* THE HANDLERS OF THE BOT                                                  *)
(*                                                                         *)
(* The Application handles one update at a time, so a handler run is one   *)
(* step.  A handler is an operator from the world it finds to the world it *)
(* leaves; w.run records what the run did and how it ended.  An exception  *)
(* that leaves the handler keeps the writes committed before it.           *)

\* The link ids the updates name, and the ids with a row in table links.
LinkIds == {1, 2}
links == {1}

\* The users whose updates the handler specifications drive.
BotUsers == {1}

\* Clock advances between two updates.
BotSteps == {DefaultBypassThreshold}

\* A /start parameter: its prefix and the rest of the string.
Param(prefix, rest) == [prefix |-> prefix, rest |-> rest]

ArgLists ==
    {<<>>, <<Param("verify_", 1), Param("", 1)>>}
        \cup {<<Param(p, n)>> : p \in {"", "batch_", "verify_"}, n \in LinkIds}

\* The token a string spells: "verify_<token>" is longer than any token
\* and spells none.
StringAsToken(param) == IF param.prefix = "" THEN param.rest ELSE 0

\* The ids of the rows the store file may hold in force_join_channels.
ChannelIds == {1}

\* What Telegram answers about one channel during a handler run.
BotTelegram == [get_chat : {"ok"}, get_chat_member : {"member", "left"}]

\* What the network and Telegram answer during one run: the membership
\* queries, whether the shortener returns a link, whether copy_message
\* succeeds.
Envs == [telegram : [ChannelIds -> BotTelegram], short_url : BOOLEAN,
         copy_ok : {TRUE}, reply_ok : {TRUE}]

\* The same with the failures of Telegram: a membership query that raises,
\* a copy_message that raises, a reply_text or edit_message_text that
\* raises (the user blocked the bot, the request timed out).
FaultEnvs ==
    [telegram : [ChannelIds -> [get_chat : {"ok"},
                                get_chat_member : {"member", "error"}]],
     short_url : BOOLEAN, copy_ok : BOOLEAN, reply_ok : BOOLEAN]

\* The rows of a set of channel ids, latest first.
RECURSIVE RowsOf(_)
RowsOf(C) ==
    IF C = {} THEN <<>>
    ELSE LET c == CHOOSE x \in C : \A y \in C : y <= x
         IN  <<[channel_id |-> c, has_username |-> TRUE]>> \o RowsOf(C \ {c})

\* Database.get_force_join_channels
get_force_join_channels(C) == RowsOf(C)

\* check_all_memberships on the rows, with the answers of this run.
Memberships(chs, env) ==
    check_all_memberships(chs, [i \in 1..Len(chs) |->
                                   env.telegram[chs[i].channel_id]])

\* A membership query of this run raised inside check_membership.
MembershipFault(chs, env) ==
    \E i \in 1..Len(chs) :
        \/ env.telegram[chs[i].channel_id].get_chat = "error"
        \/ env.telegram[chs[i].channel_id].get_chat_member = "error"

ActiveUnexpired(T, user_id, t) ==
    \E i \in 1..Len(T) :
        T[i].user_id = user_id /\ T[i].is_active /\ T[i].expiry_time > t

NewRun(handler, u) ==
    [op |-> handler, user_id |-> u, request |-> "none", link_id |-> 0,
     exc |-> "none", reply |-> "", answer |-> "", delivered |-> "none",
     link_access_checked |-> FALSE, session_looked_up |-> FALSE,
     verification_allowed_for |-> 0, token_owner |-> 0, gate |-> "none",
     pending_before |-> user_data[u],
     had_session |-> ActiveUnexpired(sessions, u, now),
     session_seen |-> FALSE, membership_checked |-> FALSE,
     verification_checked |-> FALSE, token_issued |-> FALSE,
     session_created |-> FALSE, redeemed |-> <<>>,
     shortener |-> "none", alerted |-> FALSE, reply_failed |-> FALSE,
     membership_failed |-> FALSE]

World(handler, u) ==
    [sessions |-> sessions, tokens |-> tokens, next_token |-> next_token,
     bypass_logs |-> bypass_logs, user_requests |-> user_requests,
     verification_calls |-> verification_calls, user_data |-> user_data,
     run |-> NewRun(handler, u)]

Reply(w, text) == [w EXCEPT !.run.reply = text]
Raise(w, exc) == [w EXCEPT !.run.exc = exc]

\* await update.message.reply_text(...) or query.edit_message_text(...)
\* outside any try: the text reaches the user, or the call raises and the
\* exception leaves the handler.
ReplyTo(w, text, env) ==
    IF env.reply_ok THEN Reply(w, text)
    ELSE Raise([w EXCEPT !.run.reply_failed = TRUE], "TelegramError")

\* Database.get_link_info: the row, through dict(row).
get_link_info(link_id) ==
    IF link_id \in links THEN RowToDict(link_id) ELSE Returned("None")

send_single_file(w, env) ==
    IF env.copy_ok
    THEN ReplyTo([w EXCEPT !.run.delivered = "single"], "access_active", env)
    ELSE ReplyTo(w, "failed_to_retrieve_file", env)

send_batch_files(w, env) ==
    ReplyTo([w EXCEPT !.run.delivered = IF env.copy_ok THEN "batch" ELSE "none"],
          "sent_batch", env)

\* handle_shortener_failure: the reply, then the alert to the admins.
handle_shortener_failure(w, env) ==
    IF env.reply_ok
    THEN [Reply(w, "verification_unavailable") EXCEPT !.run.alerted = TRUE]
    ELSE ReplyTo(w, "verification_unavailable", env)

\* A start_verification that records the requested content before it asks
\* the rate limiter.
start_verification_records_first(w, u, user, link_id, is_batch, env) ==
    LET rl == check_rate_limit(w.user_requests[user], now, "verification")
        w1 == [w EXCEPT !.user_requests[user] = rl.requests,
                        !.verification_calls[user] =
                            NoteVerification(@, "verification", rl.allowed, now),
                        !.run.verification_checked = TRUE,
                        !.run.verification_allowed_for =
                            IF rl.allowed THEN user ELSE 0,
                        !.user_data[u].pending_link = link_id,
                        !.user_data[u].is_batch = is_batch]
        token == w.next_token + 1
        w2 == [w1 EXCEPT !.tokens = create_verification_token(@, token, user, now),
                         !.next_token = token,
                         !.run.token_issued = TRUE,
                         !.run.token_owner = user,
                         !.run.shortener =
                             IF env.short_url THEN "ok" ELSE "failed"]
    IN  IF ~rl.allowed THEN ReplyTo(w1, rl.message, env)
        ELSE IF ~env.short_url THEN handle_shortener_failure(w2, env)
        ELSE ReplyTo([w2 EXCEPT !.user_data[u] =
                        [pending_link |-> link_id, is_batch |-> is_batch,
                         verification_token |-> token]],
                   "verify", env)

\* start_verification(update, context, link_id, is_batch): user is
\* update.effective_user, u the user whose context.user_data it writes.
start_verification(w, u, user, link_id, is_batch, env) ==
    LET rl == check_rate_limit(w.user_requests[user], now, "verification")
        w1 == [w EXCEPT !.user_requests[user] = rl.requests,
                        !.verification_calls[user] =
                            NoteVerification(@, "verification", rl.allowed, now),
                        !.run.verification_checked = TRUE,
                        !.run.verification_allowed_for =
                            IF rl.allowed THEN user ELSE 0]
        token == w.next_token + 1
        w2 == [w1 EXCEPT !.tokens = create_verification_token(@, token, user, now),
                         !.next_token = token,
                         !.run.token_issued = TRUE,
                         !.run.token_owner = user,
                         !.run.shortener =
                             IF env.short_url THEN "ok" ELSE "failed"]
    IN  IF ~rl.allowed THEN ReplyTo(w1, rl.message, env)
        ELSE IF ~env.short_url THEN handle_shortener_failure(w2, env)
        ELSE ReplyTo([w2 EXCEPT !.user_data[u] =
                        [pending_link |-> link_id, is_batch |-> is_batch,
                         verification_token |-> token]],
                   "verify", env)

\* A membership gate that makes the two send operations the next thing that
\* happens once the membership gate is passed.
check_force_join_delivers(w, u, link_id, is_batch, env) ==
    LET chs == get_force_join_channels(channels)
    IN  IF GateDecision(chs, Memberships(chs, env)) = "start_verification"
        THEN IF is_batch THEN send_batch_files(w, env)
             ELSE send_single_file(w, env)
        ELSE ReplyTo([w EXCEPT !.run.membership_checked = TRUE], "join_channels", env)

check_force_join(w, u, link_id, is_batch, env) ==
    LET chs == get_force_join_channels(channels)
        memberships == Memberships(chs, env)
        gate == GateDecision(chs, memberships)
        w1 == [w EXCEPT !.run.membership_checked = Len(chs) > 0,
                        !.run.membership_failed = MembershipFault(chs, env),
                        !.run.gate = gate]
    IN  IF gate = "raise" THEN Raise(w1, memberships.exc)
        ELSE IF gate = "start_verification"
        THEN start_verification(w1, u, u, link_id, is_batch, env)
        ELSE IF env.reply_ok
        THEN Reply([w1 EXCEPT !.user_data[u].pending_link = link_id,
                              !.user_data[u].is_batch = is_batch],
                   "join_channels")
        ELSE ReplyTo(w1, "join_channels", env)

\* A redemption handler that takes every valid redemption for a grant.
RedemptionBranch_grants_bypassed(result) ==
    IF result[1] THEN "granted" ELSE "invalid"

\* is_valid, is_bypassed = await verify_token(...), and the two tests that
\* follow it in both redemption handlers.
RedemptionBranch(result) ==
    IF Unpack2(result) # "ok" THEN "raise"
    ELSE IF ~result[1] THEN "invalid"
    ELSE IF result[2] THEN "bypassed"
    ELSE "granted"

verification_callback(w, u, env) ==
    LET token == w.user_data[u].verification_token
        link_id == w.user_data[u].pending_link
        is_batch == w.user_data[u].is_batch
        v == verify_token(w.tokens, w.bypass_logs, bypass_threshold, token, u, now)
        w1 == [w EXCEPT !.tokens = v.tokens, !.bypass_logs = v.bypass_logs,
                        !.run.redeemed = v.result]
        branch == RedemptionBranch(v.result)
        new_token == w.next_token + 1
        w2 == [w1 EXCEPT !.sessions = create_session(@, u, SESSION_DURATION, now),
                         !.run.session_created = TRUE]
        info == get_link_info(link_id)
    IN  IF token = 0 \/ link_id = 0 THEN ReplyTo(w, "session_expired", env)
        ELSE IF branch = "raise" THEN Raise(w1, Unpack2(v.result))
        ELSE IF branch = "invalid" THEN ReplyTo(w1, "invalid_verification", env)
        ELSE IF branch = "bypassed"
        THEN ReplyTo([w1 EXCEPT !.tokens =
                                  create_verification_token(@, new_token, u, now),
                              !.next_token = new_token,
                              !.run.token_issued = TRUE,
                              !.run.token_owner = u,
                              !.user_data[u].verification_token = new_token],
                   "verification_failed", env)
        ELSE IF info.exc # "none" THEN Raise(w2, info.exc)
        ELSE IF info.value = "None" THEN ReplyTo(w2, "verification_successful", env)
        ELSE IF is_batch THEN send_batch_files(w2, env)
        ELSE send_single_file(w2, env)

\* A handle_single_link without its link_access rate check.
handle_single_link_unmetered(w, u, link_id, env) ==
    LET w0 == [w EXCEPT !.run.request = "single",
                        !.run.link_id = link_id]
        w1 == [w0 EXCEPT !.run.session_looked_up = TRUE]
        session == get_active_session(w.sessions, u, now)
        w2 == [w1 EXCEPT !.run.session_seen = TRUE]
        info == get_link_info(link_id)
    IN  IF session.exc # "none" THEN Raise(w1, session.exc)
        ELSE IF session.value = "None"
        THEN check_force_join(w1, u, link_id, FALSE, env)
        ELSE IF info.exc # "none" THEN Raise(w2, info.exc)
        ELSE IF info.value = "None" THEN ReplyTo(w2, "invalid_link", env)
        ELSE send_single_file(w2, env)

handle_single_link(w, u, link_id, env) ==
    LET rl == check_rate_limit(w.user_requests[u], now, "link_access")
        w0 == [w EXCEPT !.user_requests[u] = rl.requests,
                        !.run.request = "single",
                        !.run.link_id = link_id,
                        !.run.link_access_checked = TRUE]
        w1 == [w0 EXCEPT !.run.session_looked_up = TRUE]
        session == get_active_session(w.sessions, u, now)
        w2 == [w1 EXCEPT !.run.session_seen = TRUE]
        info == get_link_info(link_id)
    IN  IF ~rl.allowed THEN ReplyTo(w0, rl.message, env)
        ELSE IF session.exc # "none" THEN Raise(w1, session.exc)
        ELSE IF session.value = "None"
        THEN check_force_join(w1, u, link_id, FALSE, env)
        ELSE IF info.exc # "none" THEN Raise(w2, info.exc)
        ELSE IF info.value = "None" THEN ReplyTo(w2, "invalid_link", env)
        ELSE send_single_file(w2, env)

handle_batch_link(w, u, batch_id, env) ==
    LET w1 == [w EXCEPT !.run.request = "batch",
                        !.run.link_id = batch_id,
                        !.run.session_looked_up = TRUE]
        session == get_active_session(w.sessions, u, now)
        w2 == [w1 EXCEPT !.run.session_seen = TRUE]
        info == get_link_info(batch_id)
    IN  IF session.exc # "none" THEN Raise(w1, session.exc)
        ELSE IF session.value = "None"
        THEN check_force_join(w1, u, batch_id, TRUE, env)
        ELSE IF info.exc # "none" THEN Raise(w2, info.exc)
        ELSE IF info.value = "None" THEN ReplyTo(w2, "invalid_batch_link", env)
        ELSE send_batch_files(w2, env)

handle_verification_webhook(w0, u, args, env) ==
    LET w == [w0 EXCEPT !.run.request = "verify"]
        token == StringAsToken(args[1])
        user_id == get_user_by_token(w.tokens, token)
        v == verify_token(w.tokens, w.bypass_logs, bypass_threshold, token,
                          user_id, now)
        w1 == [w EXCEPT !.tokens = v.tokens, !.bypass_logs = v.bypass_logs,
                        !.run.redeemed = v.result]
        branch == RedemptionBranch(v.result)
        w2 == [w1 EXCEPT !.sessions =
                             create_session(@, user_id, SESSION_DURATION, now),
                         !.run.session_created = TRUE]
    IN  IF Len(args) # 1 THEN ReplyTo(w, "invalid_verification_link", env)
        ELSE IF user_id = 0 \/ u # user_id
        THEN ReplyTo(w, "invalid_or_expired_token", env)
        ELSE IF branch = "raise" THEN Raise(w1, Unpack2(v.result))
        ELSE IF branch = "invalid" THEN ReplyTo(w1, "invalid_verification", env)
        ELSE IF branch = "bypassed" THEN ReplyTo(w1, "verification_too_fast", env)
        ELSE ReplyTo(w2, "verification_successful", env)

start_command(w, u, args, env) ==
    LET rl == check_rate_limit(w.user_requests[u], now, "message")
        w1 == [w EXCEPT !.user_requests[u] = rl.requests]
    IN  IF ~rl.allowed THEN ReplyTo(w1, rl.message, env)
        ELSE IF Len(args) = 0 THEN ReplyTo(w1, "welcome", env)
        ELSE IF args[1].prefix = "verify_"
        THEN handle_verification_webhook(w1, u, args, env)
        ELSE IF args[1].prefix = "batch_"
        THEN handle_batch_link(w1, u, args[1].rest, env)
        ELSE handle_single_link(w1, u, args[1].rest, env)

\* update.effective_user of Update(update_id=query.id, message=query.message):
\* the author of the message the button is attached to.
SynthesisedUpdateUser == BotAccount

Answer(w, text) == [w EXCEPT !.run.answer = text]

\* A recheck that starts verification whatever the channels answer.
handle_recheck_join_ignores_gate(w0, u, env) ==
    LET link_id == w0.user_data[u].pending_link
        is_batch == w0.user_data[u].is_batch
        chs == get_force_join_channels(channels)
        memberships == Memberships(chs, env)
        w == [Answer(w0, "checking_status") EXCEPT
                 !.run.request = "recheck_join",
                 !.run.link_id = link_id,
                 !.run.membership_checked = Len(chs) > 0,
                 !.run.membership_failed = MembershipFault(chs, env),
                 !.run.gate = IF memberships.exc # "none" THEN "raise"
                              ELSE IF AllJoined(memberships.value)
                              THEN "start_verification"
                              ELSE "join_channels"]
    IN  start_verification(w, u, SynthesisedUpdateUser, link_id, is_batch, env)

handle_recheck_join(w0, u, env) ==
    LET link_id == w0.user_data[u].pending_link
        is_batch == w0.user_data[u].is_batch
        chs == get_force_join_channels(channels)
        memberships == Memberships(chs, env)
        w == [Answer(w0, "checking_status") EXCEPT
                 !.run.request = "recheck_join",
                 !.run.link_id = link_id,
                 !.run.membership_checked = Len(chs) > 0,
                 !.run.membership_failed = MembershipFault(chs, env),
                 !.run.gate = IF memberships.exc # "none" THEN "raise"
                              ELSE IF AllJoined(memberships.value)
                              THEN "start_verification"
                              ELSE "join_channels"]
    IN  IF memberships.exc # "none" THEN Raise(w, memberships.exc)
        ELSE IF AllJoined(memberships.value)
        THEN start_verification(w, u, SynthesisedUpdateUser, link_id, is_batch,
                                env)
        ELSE ReplyTo(w, "join_channels", env)

handle_retry_verification(w0, u, env) ==
    LET link_id == w0.user_data[u].pending_link
        is_batch == w0.user_data[u].is_batch
        w == [Answer(w0, "starting_verification") EXCEPT
                 !.run.request = "retry_verification",
                 !.run.link_id = link_id]
    IN  IF link_id # 0
        THEN start_verification(w, u, SynthesisedUpdateUser, link_id, is_batch,
                                env)
        ELSE w

handle_verify_again(w0, u, env) ==
    LET new_token == w0.next_token + 1
        w == [Answer(w0, "starting_new_verification") EXCEPT
                 !.run.request = "verify_again",
                 !.tokens = create_verification_token(@, new_token, u, now),
                 !.next_token = new_token,
                 !.run.token_issued = TRUE,
                 !.run.token_owner = u,
                 !.run.shortener = IF env.short_url THEN "ok" ELSE "failed",
                 !.user_data[u].verification_token = new_token]
    IN  IF env.short_url THEN ReplyTo(w, "new_verification_started", env) ELSE w

time_left_callback(w0, u) ==
    LET w == [w0 EXCEPT !.run.request = "time_left",
                        !.run.session_looked_up = TRUE]
        session == get_active_session(w.sessions, u, now)
    IN  IF session.exc # "none" THEN Raise(w, session.exc)
        ELSE IF session.value = "None" THEN Reply(w, "no_active_session")
        ELSE Reply([w EXCEPT !.run.session_seen = TRUE], "time_remaining")

\* The callback data of the buttons the access pipeline shows.
CallbackData ==
    {"recheck_join", "retry_verification", "time_left", "verify_again",
     "copy_link", "try_later"}

callback_handler(w, u, data, env) ==
    IF data = "recheck_join" THEN handle_recheck_join(w, u, env)
    ELSE IF data = "retry_verification" THEN handle_retry_verification(w, u, env)
    ELSE IF data = "time_left" THEN time_left_callback(w, u)
    ELSE IF data = "verify_again" THEN handle_verify_again(w, u, env)
    ELSE IF data = "copy_link"
    THEN Answer([w EXCEPT !.run.request = "copy_link"], "link_copied")
    ELSE Answer(w, "action_completed")

\* The world a run leaves becomes the state.
Install(w) ==
    /\ runs < MaxRuns
    /\ runs' = runs + 1
    /\ sessions' = w.sessions
    /\ tokens' = w.tokens
    /\ next_token' = w.next_token
    /\ bypass_logs' = w.bypass_logs
    /\ user_requests' = w.user_requests
    /\ verification_calls' = w.verification_calls
    /\ user_data' = w.user_data
    /\ ret' = w.run
    /\ UNCHANGED <<now, ticks, tz, bypass_threshold, valid_returns, proc,
                   writer, channels, max_requests_per_minute>>

CallStartCommand(u, args, env) ==
    /\ runs < MaxRuns
    /\ Install(start_command(World("start_command", u), u, args, env))

CallCallbackHandler(u, data, env) ==
    /\ runs < MaxRuns
    /\ Install(callback_handler(World("callback_handler", u), u, data, env))

CallVerificationCallback(u, env) ==
    /\ runs < MaxRuns
    /\ Install(verification_callback(World("verification_callback", u), u, env))

\* Database.add_force_join_channel: its INSERT takes the write lock, then
\* log_admin_action opens a second connection whose INSERT cannot take it
\* and raises when the busy timeout runs out; the first connection closes
\* without a commit.
add_force_join_channel(C, c) ==
    [exc |-> "OperationalError", channels |-> C]

CallAddForceJoinChannel(c) ==
    /\ channels' = add_force_join_channel(channels, c).channels
    /\ ret' = [op |-> "add_force_join_channel", channel_id |-> c,
               exc |-> add_force_join_channel(channels, c).exc]
    /\ UNCHANGED <<now, ticks, tz, sessions, tokenVars, user_requests,
                   verification_calls, proc, writer, user_data, runs,
                   max_requests_per_minute>>

CallRemoveForceJoinChannel(c) ==
    /\ channels' = channels \ {c}
    /\ ret' = [op |-> "remove_force_join_channel"]
    /\ UNCHANGED <<now, ticks, tz, sessions, tokenVars, user_requests,
                   verification_calls, proc, writer, user_data, runs,
                   max_requests_per_minute>>

AdvanceBot ==
    Advance(BotSteps, MaxBotTicks) /\ UNCHANGED <<tz, sessions, tokenVars, botVars>>

\* The updates the Application hands to the handlers.
NextUpdate ==
    \/ \E u \in BotUsers, args \in ArgLists, env \in Envs :
          CallStartCommand(u, args, env)
    \/ \E u \in BotUsers, env \in Envs : CallVerificationCallback(u, env)
    \/ \E u \in BotUsers, data \in CallbackData, env \in Envs :
          CallCallbackHandler(u, data, env)

\* The store's channel table written directly, and the clock.
NextAround ==
    \/ \E c \in ChannelIds : CallAddForceJoinChannel(c)
    \/ \E c \in ChannelIds : CallRemoveForceJoinChannel(c)
    \/ AdvanceBot

NextBot == NextUpdate \/ NextAround

\* The bot starts on a store file whose force_join_channels table holds
\* any of the rows ChannelIds names: no method the bot can complete adds one.
InitBot ==
    /\ InitTables({0})
    /\ channels \in SUBSET ChannelIds
    /\ ret = [op |-> "init"]

SpecBot == InitBot /\ [][NextBot]_vars

\* The handlers, and the store's create_session called on its own.
NextBotStore ==
    \/ runs < MaxStoreRuns /\ NextUpdate
    \/ NextAround
    \/ \E u \in BotUsers : CallCreateSession(u, SESSION_DURATION)

SpecBotStore == InitBot /\ [][NextBotStore]_vars

-----------------------------------------------------------------------------
(* C5 *)

ContentRequests == {"single", "batch"}

GrantedRedemption(r) == Len(r) >= 2 /\ r[1] /\ ~r[2]

\* C5: sole grant path.  A handler run delivers content (single or batch)
\* only if, in that run, get_active_session returned a session of the user
\* that was active and unexpired, or create_session completed after a
\* redemption that verify_token reported valid and not bypassed.
C5_SoleGrantPath ==
    (ret.op \in {"start_command", "verification_callback", "callback_handler"}
        /\ ret.delivered # "none")
    => \/ ret.session_seen /\ ret.had_session
       \/ ret.session_created /\ GrantedRedemption(ret.redeemed)

\* A user without a session asked for content: the run went through the
\* rate check of verification, issued a token, and delivered nothing.
C5_Witness ==
    /\ ret.op = "start_command"
    /\ ret.request \in ContentRequests
    /\ ~ret.had_session
    /\ ret.token_issued
    /\ ret.reply = "verify"
    /\ ret.delivered = "none"

-----------------------------------------------------------------------------
(* C7 *)

\* C7: a redemption classified bypassed never creates a session and never
\* delivers content.  A run of a redemption handler creates a session or
\* delivers only when verify_token reported valid and not bypassed; and
\* every session row belongs to a user one of whose tokens was redeemed
\* unbypassed, that is at an elapsed time of at least the threshold.
C7_BypassedNeverGrants ==
    /\ (ret.op \in {"start_command", "verification_callback"}
           /\ Len(ret.redeemed) > 0
           /\ (ret.session_created \/ ret.delivered # "none"))
       => GrantedRedemption(ret.redeemed)
    /\ \A i \in 1..Len(sessions) :
          \E k \in 1..Len(tokens) :
              /\ tokens[k].user_id = sessions[i].user_id
              /\ tokens[k].is_used
              /\ ~tokens[k].is_bypassed

\* verification_callback redeemed a token that verify_token classified
\* bypassed; no session was created and nothing was delivered.
C7_Witness ==
    /\ ret.op = "verification_callback"
    /\ Len(ret.redeemed) > 0
    /\ ret.redeemed[1]
    /\ ret.redeemed[2]
    /\ \E k \in 1..Len(tokens) : tokens[k].is_used /\ tokens[k].is_bypassed
    /\ ~ret.session_created
    /\ ret.delivered = "none"
    /\ sessions = <<>>

-----------------------------------------------------------------------------
(* C8 *)

RateMessages == {"rate_limit", "verification_limit"}

\* The ways the fast path ends when it does not deliver: no row for the
\* link, or Telegram refusing the copy.
FastPathRefusals ==
    {"invalid_link", "invalid_batch_link", "failed_to_retrieve_file",
     "sent_batch"}

\* C8: fast path.  A content request (single or batch) of a user who has an
\* active unexpired session, once past the rate checks that precede the
\* session lookup, delivers the content (or ends in one of the fast path's
\* own refusals), and evaluates no channel membership, makes no
\* verification-class rate check and issues no token.
C8_FastPath ==
    (ret.op = "start_command"
        /\ ret.request \in ContentRequests
        /\ ret.had_session
        /\ ret.reply \notin RateMessages)
    => /\ ret.delivered # "none" \/ ret.reply \in FastPathRefusals
       /\ ~ret.membership_checked
       /\ ~ret.verification_checked
       /\ ~ret.token_issued

-----------------------------------------------------------------------------
(* C11 *)

HandlerOps == {"start_command", "verification_callback", "callback_handler"}

\* C11: verification is never issued to a rate-limited user.  A handler
\* run that creates a verification token has, earlier in the same run,
\* made a verification-class rate check that permitted the token's owner.
C11_TokenOnlyAfterRateCheck ==
    (ret.op \in HandlerOps /\ ret.token_issued)
    => /\ ret.verification_allowed_for # 0
       /\ ret.verification_allowed_for = ret.token_owner

-----------------------------------------------------------------------------
(* C12 *)

\* C12: every content request, single or batch, passes a link_access-class
\* rate check before the session is looked up; a request that check denies
\* writes no pending field, issues no token, creates no session and
\* evaluates no membership.
C12_LinkAccessCheckFirst ==
    (ret.op \in HandlerOps /\ ret.request \in ContentRequests)
    => /\ ret.session_looked_up => ret.link_access_checked
       /\ (ret.link_access_checked /\ ~ret.session_looked_up)
             => /\ user_data[ret.user_id] = ret.pending_before
                /\ ~ret.token_issued
                /\ ~ret.session_created
                /\ ~ret.membership_checked

-----------------------------------------------------------------------------
(* C15 *)

\* C15: join gate scenario.  A sessionless user's request that the gate
\* holds back stores the content reference and the batch flag and issues no
\* token.  A recheck that finds every channel joined enters verification
\* issuance for the stored reference, with no link_access rate check and no
\* session lookup, and leaves the stored reference and flag in place; a
\* recheck that finds a channel not joined changes nothing pending and
\* issues no token.
C15_JoinGateScenario ==
    /\ (ret.op \in HandlerOps /\ ret.request \in ContentRequests
           /\ ~ret.had_session /\ ret.gate = "join_channels")
       => /\ user_data[ret.user_id].pending_link = ret.link_id
          /\ user_data[ret.user_id].is_batch = (ret.request = "batch")
          /\ ~ret.token_issued
    /\ (ret.op \in HandlerOps /\ ret.request = "recheck_join"
           /\ ret.gate = "start_verification")
       => /\ ret.verification_checked
          /\ ret.token_issued <=> ret.verification_allowed_for # 0
          /\ ~ret.link_access_checked
          /\ ~ret.session_looked_up
          /\ ret.link_id = ret.pending_before.pending_link
          /\ user_data[ret.user_id].pending_link = ret.pending_before.pending_link
          /\ user_data[ret.user_id].is_batch = ret.pending_before.is_batch
          /\ ret.reply = "verify"
                => user_data[ret.user_id].verification_token = next_token
    /\ (ret.op \in HandlerOps /\ ret.request = "recheck_join"
           /\ ret.gate = "join_channels")
       => /\ user_data[ret.user_id] = ret.pending_before
          /\ ~ret.token_issued

\* The user was held back on a link, joined, and pressed recheck: a token
\* was issued and recorded against the stored link.
C15_Witness ==
    /\ ret.op = "callback_handler"
    /\ ret.request = "recheck_join"
    /\ ret.gate = "start_verification"
    /\ ret.membership_checked
    /\ ret.pending_before.pending_link # 0
    /\ ret.pending_before.verification_token = 0
    /\ ret.token_issued
    /\ ret.reply = "verify"
    /\ user_data[ret.user_id].pending_link = ret.pending_before.pending_link
    /\ user_data[ret.user_id].verification_token = next_token

\* A recheck with the channel still not joined: nothing changed.
C15_WitnessStillOut ==
    /\ ret.op = "callback_handler"
    /\ ret.request = "recheck_join"
    /\ ret.gate = "join_channels"
    /\ ret.pending_before.pending_link # 0
    /\ user_data[ret.user_id] = ret.pending_before
    /\ next_token = 0

-----------------------------------------------------------------------------
(* C16 *)

\* C16: a retry never fabricates a content reference.  A recheck-join or
\* retry-verification run that finds no pending content reference issues
\* no token, writes no pending field, and tells the user the session
\* expired.
C16_RetryNeverFabricates ==
    (ret.op \in HandlerOps
        /\ ret.request \in {"recheck_join", "retry_verification"}
        /\ ret.pending_before.pending_link = 0)
    => /\ ~ret.token_issued
       /\ user_data[ret.user_id] = ret.pending_before
       /\ ret.reply = "session_expired"

-----------------------------------------------------------------------------
(* C17 *)

\* C17: a redemption that verify_token reports valid and not bypassed
\* creates the session and delivers the pending content, single or batch
\* as the pending flag says.
C17_GrantDelivers ==
    (ret.op \in HandlerOps /\ GrantedRedemption(ret.redeemed))
    => /\ ret.session_created
       /\ ret.delivered =
             IF ret.pending_before.is_batch THEN "batch" ELSE "single"

-----------------------------------------------------------------------------
(* C18 *)

\* C18: pending request cleared on grant.  After a redemption that
\* verify_token reported valid and not bypassed, the user's pending content
\* reference, batch flag and outstanding token are absent.
C18_ClearedOnGrant ==
    (ret.op \in HandlerOps /\ GrantedRedemption(ret.redeemed))
    => user_data[ret.user_id] = NoUserData

-----------------------------------------------------------------------------
(* C19 *)

\* C19: a bypassed redemption issues a new token of the same user at once,
\* records it as the outstanding token in place of the consumed one, and
\* leaves the pending content reference and batch flag as they were.
C19_BypassReissues ==
    (ret.op \in HandlerOps /\ Len(ret.redeemed) > 0
        /\ ret.redeemed[1] /\ ret.redeemed[2])
    => /\ ret.token_issued
       /\ ret.token_owner = ret.user_id
       /\ user_data[ret.user_id].verification_token = next_token
       /\ user_data[ret.user_id].verification_token
             # ret.pending_before.verification_token
       /\ user_data[ret.user_id].pending_link = ret.pending_before.pending_link
       /\ user_data[ret.user_id].is_batch = ret.pending_before.is_batch

-----------------------------------------------------------------------------
(* C20 *)

\* C20: shortener failure is recoverable.  After a sessionless user's
\* content request whose issuance found the shortener returning none, the
\* user's pending request names the requested content reference and its
\* batch flag.
C20_ShortenerFailureRecoverable ==
    (ret.op \in HandlerOps /\ ret.request \in ContentRequests
        /\ ~ret.had_session /\ ret.reply = "verification_unavailable")
    => /\ user_data[ret.user_id].pending_link = ret.link_id
       /\ user_data[ret.user_id].is_batch = (ret.request = "batch")

-----------------------------------------------------------------------------
(* C21 *)

\* C21: every shortener failure on a token issuance path answers the user
\* that verification is unavailable and raises an operational alert, and
\* no run raises an alert unless a collaborator failed in it.
C21_ShortenerFailureAlerts ==
    ret.op \in HandlerOps
    => /\ ret.shortener = "failed"
          => (ret.reply = "verification_unavailable" /\ ret.alerted)
       /\ ret.alerted => ret.shortener = "failed"

-----------------------------------------------------------------------------
(* C22 *)

\* C22: when the verification-class rate check denies, the run creates no
\* token and leaves the user's pending content reference, batch flag and
\* outstanding token exactly as the run found them; the user is told which
\* limit denied.
C22_RateDenialFrame ==
    (ret.op \in HandlerOps /\ ret.verification_checked
        /\ ret.verification_allowed_for = 0)
    => /\ ~ret.token_issued
       /\ ret.token_owner = 0
       /\ user_data[ret.user_id] = ret.pending_before
       /\ ret.reply \in {"rate_limit", "verification_limit"}
       /\ ret.shortener = "none"

\* A second content request inside the verification window: denied, and
\* the pending request of the first is still there, token included.
C22_Witness ==
    /\ ret.op = "start_command"
    /\ ret.request \in {"single", "batch"}
    /\ ret.verification_checked
    /\ ret.verification_allowed_for = 0
    /\ ret.reply = "verification_limit"
    /\ ret.pending_before.pending_link # 0
    /\ ret.pending_before.verification_token # 0
    /\ ret.link_id # ret.pending_before.pending_link
    /\ user_data[ret.user_id] = ret.pending_before
    /\ next_token = ret.pending_before.verification_token

-----------------------------------------------------------------------------
(* C23 *)

\* The rows of T that carry the token.
RowsOfToken(T, token) == {i \in 1..Len(T) : T[i].token = token}

\* C23: verify_token returns invalid when the token does not exist, is
\* owned by a different user, or is already used, and then changes
\* nothing: no token row is marked used or bypassed and no bypass log is
\* written.  A handler run whose redemption was invalid leaves the user's
\* pending request as it found it, creates no session and issues no token.
C23_InvalidChangesNothing ==
    /\ ret.op = "verify_token"
       => LET rows == RowsOfToken(ret.before, ret.token)
          IN  (\/ rows = {}
               \/ \E i \in rows : ret.before[i].user_id # ret.user_id
               \/ \E i \in rows : ret.before[i].is_used)
              => /\ ~ret.result[1]
                 /\ tokens = ret.before
                 /\ bypass_logs = ret.logs_before
                 /\ sessions = <<>>
    /\ (ret.op \in HandlerOps /\ Len(ret.redeemed) > 0 /\ ~ret.redeemed[1])
       => /\ user_data[ret.user_id] = ret.pending_before
          /\ ~ret.session_created
          /\ ~ret.token_issued

\* A user presents the unused token of another user: invalid, and the
\* owner's token is still unused.
C23_Witness ==
    /\ ret.op = "verify_token"
    /\ ~ret.result[1]
    /\ \E i \in 1..Len(tokens) :
          /\ tokens[i].token = ret.token
          /\ tokens[i].user_id # ret.user_id
          /\ ~tokens[i].is_used
    /\ bypass_logs = <<>>

\* A token that does not exist is presented.
C23_WitnessNoToken ==
    /\ ret.op = "verify_token"
    /\ ~ret.result[1]
    /\ RowsOfToken(tokens, ret.token) = {}
    /\ Len(tokens) > 0

\* A handler run presents a token a second time: invalid, and the pending
\* request is as it was.
C23_WitnessHandler ==
    /\ ret.op = "verification_callback"
    /\ Len(ret.redeemed) > 0
    /\ ~ret.redeemed[1]
    /\ ret.pending_before.verification_token # 0
    /\ user_data[ret.user_id] = ret.pending_before

-----------------------------------------------------------------------------
(* C24 *)

\* The rows the SELECT of get_active_session yields at process time t.
SelectActive(T, user_id, t) ==
    RowsWhere(T, LAMBDA r : r.user_id = user_id /\ r.is_active
                             /\ r.expiry_time > t)

\* Later instants at which a session may be looked up.
LookupDelays == {0} \cup SessionSteps \cup Durations

\* The sweep changes the answer of no later lookup: the SELECT yields the
\* same rows with and without a cleanup_expired_sessions run now.
C24_SweepAdvisory ==
    \A u \in Users, d \in LookupDelays :
        SelectActive(cleanup_expired_sessions(sessions, now), u, now + d)
            = SelectActive(sessions, u, now + d)

\* C24: lazy session expiry.  get_active_session(u) returns a session
\* exactly when u has a row with is_active = 1 and now < expiry_time, and
\* running cleanup_expired_sessions changes the result of no later
\* get_active_session call.
C24_LazyExpiry ==
    /\ ret.op = "get_active_session"
       => ((ret.result.exc = "none" /\ ret.result.value # "None")
              <=> SelectActive(sessions, ret.user_id, now) # {})
    /\ C24_SweepAdvisory

-----------------------------------------------------------------------------
(* C25 *)

\* Later instants at which a token may be presented.
RedeemDelays == {0} \cup TokenSteps

\* The rows a cleanup_old_tokens(1) run now would delete.
SweptRows(T, t) ==
    {i \in 1..Len(T) : TextLess(T[i].created_at, t - 1 * SecondsPerDay)}

\* C25: the token sweep is advisory.  cleanup_old_tokens removes only
\* unused tokens older than one day, and running it changes the outcome of
\* no later verify_token call.
C25_TokenSweepAdvisory ==
    /\ \A i \in SweptRows(tokens, now) :
          /\ ~tokens[i].is_used
          /\ CURRENT_TIMESTAMP(now) - tokens[i].created_at > SecondsPerDay
    /\ \A t \in 1..next_token, u \in Users, d \in RedeemDelays :
          verify_token(cleanup_old_tokens(tokens, 1, now), bypass_logs,
                       bypass_threshold, t, u, now + d).result
             = verify_token(tokens, bypass_logs, bypass_threshold, t, u,
                            now + d).result

-----------------------------------------------------------------------------
(* BATCH DELIVERY, src/bot.py *)

\* What happens to one message of a batch: copy_message succeeds and the
\* caption step (when enabled) succeeds; copy_message raises; or
\* copy_message succeeds and the caption step (msg.caption, apply_caption,
\* edit_caption) raises.
ItemOutcomes == {"copied", "copy_raises", "caption_raises"}

\* A batch row, the auto_caption_enabled setting, and what Telegram does
\* with each message id.  The caption step runs only when the setting is
\* "1".
BatchInputs ==
    {b \in [start_msg_id : 1..MaxBatch, end_msg_id : 0..MaxBatch,
            auto_caption : {"0", "1"}, items : [1..MaxBatch -> ItemOutcomes]] :
        b.auto_caption = "0"
            => \A m \in 1..MaxBatch : b.items[m] # "caption_raises"}

\* for msg_id in range(start_id, end_id + 1): try copy, caption,
\* sent_count += 1; except: continue.
RECURSIVE BatchLoop(_, _, _, _)
BatchLoop(msg_id, end_id, items, acc) ==
    IF msg_id > end_id THEN acc
    ELSE BatchLoop(msg_id + 1, end_id, items,
            [attempted |-> Append(acc.attempted, msg_id),
             delivered |-> IF items[msg_id] # "copy_raises"
                           THEN Append(acc.delivered, msg_id)
                           ELSE acc.delivered,
             sent_count |-> IF items[msg_id] = "copied"
                            THEN acc.sent_count + 1
                            ELSE acc.sent_count])

\* The loop of send_batch_files and the count its reply reports.
send_batch_loop(b) ==
    BatchLoop(b.start_msg_id, b.end_msg_id, b.items,
              [attempted |-> <<>>, delivered |-> <<>>, sent_count |-> 0])

CallSendBatchFiles ==
    /\ ret.op = "batch_info"
    /\ ret' = [op |-> "send_batch_files", batch |-> ret.batch,
               loop |-> send_batch_loop(ret.batch),
               reply |-> "sent_batch"]
    /\ UNCHANGED <<now, ticks, tz, sessions, tokenVars, botVars>>

NextBatch == CallSendBatchFiles

InitBatch ==
    /\ InitTables({0})
    /\ channels = {}
    /\ ret \in [op : {"batch_info"}, batch : BatchInputs]

SpecBatch == InitBatch /\ [][NextBatch]_vars

-----------------------------------------------------------------------------
(* C26 *)

\* The message ids of the inclusive range, ascending.
RangeAscending(start_id, end_id) ==
    [i \in 1..(IF end_id >= start_id THEN end_id - start_id + 1 ELSE 0) |->
        start_id + i - 1]

\* Every item of the range is attempted once, in ascending order, whatever
\* happened to the items before it.
C26_EveryItemAttempted ==
    ret.op = "send_batch_files"
    => ret.loop.attempted
          = RangeAscending(ret.batch.start_msg_id, ret.batch.end_msg_id)

\* C26: batch delivery.  Every item of the inclusive range is attempted
\* once in ascending order, a failure on one item never prevents the
\* attempt on later items, and the count reported to the user is the
\* number of items that were delivered to the user.
C26_BatchDelivery ==
    /\ C26_EveryItemAttempted
    /\ ret.op = "send_batch_files"
       => ret.loop.sent_count = Len(ret.loop.delivered)

\* With the caption step off the reported count is the delivered count.
C26_CountWithoutCaption ==
    (ret.op = "send_batch_files" /\ ret.batch.auto_caption = "0")
    => ret.loop.sent_count = Len(ret.loop.delivered)

-----------------------------------------------------------------------------
(* C27 *)

\* C27: end to end.  A run that redeems the outstanding token at an elapsed
\* time of the threshold or more (verify_token: valid, not bypassed) leaves
\* the user with an active, unexpired session, and every content request
\* the user makes while holding such a session is delivered without a
\* token being issued.
C27_EndToEnd ==
    /\ (ret.op \in HandlerOps /\ GrantedRedemption(ret.redeemed))
       => ActiveUnexpired(sessions, ret.user_id, now)
    /\ (ret.op \in HandlerOps /\ ret.request \in ContentRequests
           /\ ret.had_session)
       => (ret.delivered # "none" /\ ~ret.token_issued)

\* The first half alone: the redemption leaves a session.
C27_RedemptionLeavesSession ==
    (ret.op \in HandlerOps /\ GrantedRedemption(ret.redeemed))
    => ActiveUnexpired(sessions, ret.user_id, now)

-----------------------------------------------------------------------------
(* C28 *)

\* Values an operator may write into the row 'max_requests_per_minute'.
RateSettings == {RateLimit \div 2, RateLimit}

\* Database.set_setting('max_requests_per_minute', v)
CallSetMaxRequests(v) ==
    /\ max_requests_per_minute' = v
    /\ ret' = [op |-> "set_setting"]
    /\ UNCHANGED <<now, ticks, tz, sessions, tokenVars, user_requests,
                   verification_calls, proc, writer, user_data, channels,
                   runs>>

NextRateSettings ==
    \/ NextRate
    \/ \E v \in RateSettings : CallSetMaxRequests(v)

SpecRateSettings == InitRate /\ [][NextRateSettings]_vars

\* C28: the request limit check_rate_limit applies is the value of the
\* setting max_requests_per_minute: a call is denied by the request limit
\* exactly when that many instants of the user are less than RateWindow
\* seconds old.
C28_LimitFollowsSetting ==
    ret.op = "check_rate_limit"
    => (ret.message = "rate_limit"
           <=> Younger(ret.before, now, RateWindow) >= max_requests_per_minute)

-----------------------------------------------------------------------------
(* C30 *)

\* C30: window pruning.  After every check_rate_limit call for a user,
\* each instant that user's list retains is less than RateWindow seconds
\* older than the time of the call, however old the stored instants were.
C30_WindowPruning ==
    ret.op = "check_rate_limit"
    => \A i \in 1..Len(user_requests[ret.user_id]) :
          now - user_requests[ret.user_id][i] < RateWindow

\* The same for instants less than a day old, where timedelta.seconds is
\* the whole difference.
C30_PruningWithinADay ==
    ret.op = "check_rate_limit"
    => \A i \in 1..Len(user_requests[ret.user_id]) :
          now - user_requests[ret.user_id][i] < SecondsPerDay
              => now - user_requests[ret.user_id][i] < RateWindow

-----------------------------------------------------------------------------
(* THE HANDLERS WITH FAILING COLLABORATORS *)

NextUpdateFaults ==
    \/ \E u \in BotUsers, args \in ArgLists, env \in FaultEnvs :
          CallStartCommand(u, args, env)
    \/ \E u \in BotUsers, env \in FaultEnvs : CallVerificationCallback(u, env)
    \/ \E u \in BotUsers, data \in CallbackData, env \in FaultEnvs :
          CallCallbackHandler(u, data, env)

NextBotFaults ==
    \/ runs < MaxFaultRuns /\ NextUpdate
    \/ runs <= MaxFaultRuns /\ NextUpdateFaults
    \/ NextAround

SpecBotFaults == InitBot /\ [][NextBotFaults]_vars

-----------------------------------------------------------------------------
(* C29 *)

\* A collaborator failed during the run: a membership query, a reply or
\* message edit, or the shortener.
CollaboratorFailed(run) ==
    run.membership_failed \/ run.reply_failed \/ run.shortener = "failed"

\* C29: no collaborator failure propagates as an uncaught fault.  A handler
\* run in which a messaging call or the shortener failed ends normally,
\* with an outcome shown to the user.
C29_NoUncaughtFault ==
    (ret.op \in HandlerOps /\ CollaboratorFailed(ret))
    => (ret.exc = "none" /\ ret.reply # "")

\* The failures the code does catch: a membership query that raises and a
\* shortener that returns none end the run normally when the replies go
\* through.
C29_CaughtFaults ==
    (ret.op \in HandlerOps /\ ~ret.reply_failed
        /\ (ret.membership_failed \/ ret.shortener = "failed"))
    => ret.exc = "none"

-----------------------------------------------------------------------------
(* C31 *)

\* C31: token ownership on re-entry.  Every token issued through the
\* recheck-join and retry-verification buttons is owned by the user who
\* pressed the button, and the verification-class rate check of that
\* issuance was made for, and recorded in the window of, that user.
C31_TokenOwnershipOnReentry ==
    (ret.op \in HandlerOps
        /\ ret.request \in {"recheck_join", "retry_verification"}
        /\ ret.token_issued)
    => /\ ret.token_owner = ret.user_id
       /\ ret.verification_allowed_for = ret.user_id
       /\ \E i \in 1..Len(tokens) :
             tokens[i].token = next_token /\ tokens[i].user_id = ret.user_id
       /\ Len(user_requests[ret.user_id]) > 0
       /\ user_requests[ret.user_id][Len(user_requests[ret.user_id])] = now

-----------------------------------------------------------------------------
(* C32 *)

\* A run in which Telegram and the shortener answer: every channel joined,
\* a short link returned.
QuietEnv ==
    [telegram |-> [c \in ChannelIds |->
                      [get_chat |-> "ok", get_chat_member |-> "member"]],
     short_url |-> TRUE, copy_ok |-> TRUE, reply_ok |-> TRUE]

\* What a user can do: request a link, recheck, retry, redeem.
UserActions == {"request", "recheck_join", "retry_verification", "redeem"}

\* The handler run of one user action on the world w.
Act(w, u, a) ==
    IF a = "request" THEN start_command(w, u, <<Param("", 1)>>, QuietEnv)
    ELSE IF a = "redeem" THEN verification_callback(w, u, QuietEnv)
    ELSE callback_handler(w, u, a, QuietEnv)

\* The world a run left, as the next run (of user u) finds it.
NextWorld(w, u) == [w EXCEPT !.run = NewRun("next", u)]

\* What the rate limiter decided in a run: whether the run ended in one of
\* its denials, and whether the verification-class check was reached and
\* permitted.
RateOutcome(run) ==
    <<run.reply \in {"rate_limit", "verification_limit"},
      run.verification_checked, run.verification_allowed_for # 0>>

\* C32: per-user isolation of rate limiting.  For two distinct users A and
\* B, whatever A does, the limiter's decisions in the run of B's next
\* action are what they would be had A not acted.
C32_RateIsolation ==
    \A A \in BotUsers, B \in Users, a \in UserActions, b \in UserActions :
        A # B =>
            RateOutcome(Act(NextWorld(Act(World("first", A), A, a), B), B, b).run)
                = RateOutcome(Act(World("first", B), B, b).run)

-----------------------------------------------------------------------------
(* C33 *)

\* C33: pending token coherence.  Whenever a run leaves a user with both a
\* pending content reference and an outstanding token, either the run left
\* the pair as it found it, or it issued that token after the membership
\* gate passed for the request of that very reference, or it replaced the
\* token of a pair that was already there and kept the reference.
C33_PendingTokenCoherence ==
    (ret.op \in HandlerOps
        /\ user_data[ret.user_id].pending_link # 0
        /\ user_data[ret.user_id].verification_token # 0)
    => \/ user_data[ret.user_id] = ret.pending_before
       \/ /\ ret.token_issued
          /\ user_data[ret.user_id].verification_token = next_token
          /\ user_data[ret.user_id].pending_link = ret.link_id
          /\ ret.gate = "start_verification"
       \/ /\ ret.token_issued
          /\ user_data[ret.user_id].verification_token = next_token
          /\ ret.pending_before.verification_token # 0
          /\ user_data[ret.user_id].pending_link
                = ret.pending_before.pending_link

-----------------------------------------------------------------------------
(* C34 *)

\* The unused tokens user u owns that were issued at least the threshold
\* ago.
RipeTokens(u) ==
    {tokens[i].token : i \in
        {j \in 1..Len(tokens) :
            /\ tokens[j].user_id = u
            /\ ~tokens[j].is_used
            /\ now - (tokens[j].created_at + tz) >= bypass_threshold}}

\* C34: web-hook redemption works for the owner.  A /start request whose
\* parameter is verify_ followed by an unused token the requesting user
\* owns, issued at least the threshold earlier, looks up exactly that token
\* and ends with a session created for the user.
C34_WebhookRedeems ==
    \A u \in BotUsers : \A t \in RipeTokens(u) :
        LET w == start_command(World("start_command", u), u,
                               <<Param("verify_", t)>>, QuietEnv)
        IN  /\ Len(w.run.redeemed) > 0
            /\ w.run.session_created
            /\ ActiveUnexpired(w.sessions, u, now)

-----------------------------------------------------------------------------
(* C35 *)

\* C35: redemption always ends in a defined outcome.  The result of
\* verify_token has the shape the redemption handlers consume, so every run
\* that called verify_token ends without an exception as one of invalid,
\* bypassed or granted, and a token that verify_token marked used with
\* bypassed = False is followed by create_session in the same run.
C35_RedemptionDefined ==
    (ret.op \in HandlerOps /\ Len(ret.redeemed) > 0)
    => /\ Unpack2(ret.redeemed) = "ok"
       /\ ret.exc = "none"
       /\ RedemptionBranch(ret.redeemed) \in {"invalid", "bypassed", "granted"}
       /\ GrantedRedemption(ret.redeemed) => ret.session_created

-----------------------------------------------------------------------------
(* C36 *)

\* The user has a pending content reference and an outstanding token.
VerifyPending(u) ==
    user_data[u].pending_link # 0 /\ user_data[u].verification_token # 0

\* The run w called verify_token on the outstanding token of user u.
RedeemsOutstanding(w, u) ==
    /\ Len(w.run.redeemed) > 0
    /\ \E i \in 1..Len(w.tokens) :
          /\ w.tokens[i].token = user_data[u].verification_token
          /\ w.tokens[i].is_used
          /\ \A j \in 1..Len(tokens) :
                tokens[j].token = user_data[u].verification_token
                    => ~tokens[j].is_used

\* The outstanding token of u is unused and owned by u.
OutstandingRedeemable(u) ==
    \E i \in 1..Len(tokens) :
        /\ tokens[i].token = user_data[u].verification_token
        /\ tokens[i].user_id = u
        /\ ~tokens[i].is_used

\* C36: in-chat redemption is reachable.  Whenever a user has a pending
\* request with a redeemable outstanding token, some update that
\* callback_handler or start_command dispatches runs the redemption step
\* on that token.
C36_RedemptionReachable ==
    \A u \in BotUsers :
        (VerifyPending(u) /\ OutstandingRedeemable(u))
        => \/ \E data \in CallbackData, env \in Envs :
                 RedeemsOutstanding(
                     callback_handler(World("callback_handler", u), u, data, env),
                     u)
           \/ \E args \in ArgLists, env \in Envs :
                 RedeemsOutstanding(
                     start_command(World("start_command", u), u, args, env), u)

\* The handler that is not registered would do it.
C36_UnregisteredHandlerRedeems ==
    \A u \in BotUsers :
        (VerifyPending(u) /\ OutstandingRedeemable(u))
        => RedeemsOutstanding(
               verification_callback(World("verification_callback", u), u,
                                     QuietEnv), u)

-----------------------------------------------------------------------------
(* C37 *)

\* The process-clock instant at which the row of token t was inserted:
\* the stored created_at is the store's CURRENT_TIMESTAMP at that instant.
InsertedAt(T, t) ==
    LET i == CHOOSE i \in 1..Len(T) : T[i].token = t
    IN  T[i].created_at + tz

\* C37: elapsed time is measured on one clock.  The elapsed value a valid
\* verify_token call compares with the threshold equals the real time
\* between the token's insertion and the redemption, whatever the offset
\* between the store's clock and the process clock.
C37_ElapsedOnOneClock ==
    (ret.op = "verify_token" /\ ret.result[1])
    => ret.result[3] = now - InsertedAt(tokens, ret.token)

\* With no offset between the two clocks the elapsed value is the real one.
C37_ElapsedWithoutOffset ==
    (ret.op = "verify_token" /\ ret.result[1] /\ tz = 0)
    => ret.result[3] = now - InsertedAt(tokens, ret.token)

-----------------------------------------------------------------------------
(* SINGLE-LINK REQUESTS ROUND THE VERIFICATION WINDOW *)

\* Clock advances between two requests.
SlotSteps == {VerificationWindow - 1, VerificationWindow}

\* The /start <link_id> updates.
SingleLinkArgs == {<<Param("", l)>> : l \in LinkIds}

AdvanceSlots ==
    Advance(SlotSteps, MaxSlotTicks) /\ UNCHANGED <<tz, sessions, tokenVars, botVars>>

NextSlots ==
    \/ \E u \in BotUsers, args \in SingleLinkArgs, env \in Envs :
          CallStartCommand(u, args, env)
    \/ \E u \in BotUsers : CallCreateSession(u, SESSION_DURATION)
    \/ AdvanceSlots

SpecSlots == InitBot /\ [][NextSlots]_vars

-----------------------------------------------------------------------------
(* C38 *)

\* The gate of this run lets the request through to verification.
GatePasses(env) ==
    LET chs == get_force_join_channels(channels)
    IN  GateDecision(chs, Memberships(chs, env)) = "start_verification"

\* The list check_rate_limit keeps of a window before it decides.
Cleaned(reqs, t) ==
    SelectSeq(reqs, LAMBDA r : TimedeltaSeconds(t - r) < RateWindow)

\* The window of u holds exactly the three instants of one request made
\* less than the verification window ago.
FirstRequestWithin(u) ==
    /\ Len(user_requests[u]) = VerificationLimit
    /\ \A i \in 1..VerificationLimit :
          /\ user_requests[u][i] = user_requests[u][1]
          /\ now - user_requests[u][i] >= 0
          /\ now - user_requests[u][i] < VerificationWindow

\* C38: slot consumption per request.  A single-link request by a user
\* without a session whose gate passes, when none of its checks denies,
\* appends three instants to the user's window; on an empty window it
\* reaches token issuance; and when the window holds the three instants of
\* a first request less than 30 s old it is denied at the verification
\* check, after the /start and link_access checks recorded theirs.
C38_SlotConsumption ==
    \A u \in BotUsers, args \in SingleLinkArgs, env \in Envs :
        LET w == start_command(World("start_command", u), u, args, env)
        IN  (~ActiveUnexpired(sessions, u, now) /\ GatePasses(env))
            => /\ w.run.verification_allowed_for = u
                    => w.user_requests[u]
                         = Cleaned(user_requests[u], now) \o <<now, now, now>>
               /\ Len(user_requests[u]) = 0
                    => /\ w.run.token_issued
                       /\ w.next_token = next_token + 1
                       /\ w.user_requests[u] = <<now, now, now>>
               /\ FirstRequestWithin(u)
                    => /\ w.run.verification_checked
                       /\ w.run.verification_allowed_for = 0
                       /\ w.run.reply = "verification_limit"
                       /\ ~w.run.token_issued
                       /\ w.user_requests[u] = user_requests[u] \o <<now, now>>

\* A second request 29 s after the first on an empty window: denied at the
\* verification check, the token of the first still the only one.
C38_Witness ==
    /\ ret.op = "start_command"
    /\ ret.request = "single"
    /\ ~ret.had_session
    /\ ret.gate = "start_verification"
    /\ ret.verification_checked
    /\ ret.reply = "verification_limit"
    /\ next_token = 1
    /\ Len(user_requests[ret.user_id]) = 5
    /\ now - user_requests[ret.user_id][1] = VerificationWindow - 1
    /\ user_requests[ret.user_id][4] = now

\* A second request exactly 30 s after the first passes the verification
\* check and a second token is issued.
C38_WitnessAtWindow ==
    /\ ret.op = "start_command"
    /\ ret.request = "single"
    /\ ret.token_issued
    /\ next_token = 2
    /\ Len(user_requests[ret.user_id]) = 6
    /\ now - user_requests[ret.user_id][1] = VerificationWindow

-----------------------------------------------------------------------------
(* C39 *)

\* The rows of T whose user_id is not u, with their positions.
OtherRows(T, u) == {<<i, T[i]>> : i \in {j \in 1..Len(T) : T[j].user_id # u}}

\* get_active_session handed a session back.
ReportsActive(result) == result.exc = "none" /\ result.value # "None"

\* create_session(u, d) and deactivate_session(u) change only rows of u, and
\* after deactivate_session(u) the lookup for u returns none while the
\* lookup of every other user answers as before.
C39_SessionFrame ==
    \A u \in Users :
        /\ \A d \in Durations :
              OtherRows(create_session(sessions, u, d, now), u)
                  = OtherRows(sessions, u)
        /\ OtherRows(deactivate_session(sessions, u), u) = OtherRows(sessions, u)
        /\ get_active_session(deactivate_session(sessions, u), u, now)
              = Returned("None")
        /\ \A v \in Users \ {u} :
              get_active_session(deactivate_session(sessions, u), v, now)
                  = get_active_session(sessions, v, now)

\* A session still marked active is handed back by get_active_session
\* exactly at the times from its start up to, not including, its expiry.
C39_ActiveInterval ==
    \A i \in 1..Len(sessions) :
        sessions[i].is_active
        => (ReportsActive(get_active_session(sessions, sessions[i].user_id, now))
              <=> (sessions[i].start_time <= now /\ now < sessions[i].expiry_time))

\* C39: session operations are per user.  create_session(u, d) and
\* deactivate_session(u) change only rows whose user_id is u; a session
\* created at s with duration d and not deactivated is reported active by
\* get_active_session exactly for s <= t < s + d; after
\* deactivate_session(u) the lookup for u returns none and every other
\* user's result is unchanged.
C39_SessionsPerUser == C39_SessionFrame /\ C39_ActiveInterval

\* The SELECT of get_active_session finds a row of u exactly when u has a
\* row marked active whose interval holds the present.
C39_SelectInterval ==
    \A u \in Users :
        (RowsWhere(sessions, LAMBDA r : r.user_id = u /\ r.is_active
                                         /\ r.expiry_time > now) # {})
        <=> \E i \in 1..Len(sessions) :
               /\ sessions[i].user_id = u
               /\ sessions[i].is_active
               /\ sessions[i].start_time <= now
               /\ now < sessions[i].expiry_time

=============================================================================
